---- MODULE Spec2Model ----
(***************************************************************************)
(* Combat and actor-simulation core of scroller-brawler: the Player and    *)
(* Enemy state machines with their delayed callbacks, the Player's         *)
(* leveling arithmetic and the EnemySpawner's spawn points.                *)
(*                                                                         *)
(* Time is the scene clock `now` in milliseconds.  A delayed call or tween *)
(* is a record [cb, due] in the owning actor's `pending` sequence; it      *)
(* fires in the first frame whose time is >= due.  Public methods may be   *)
(* called at any point of a frame.  Each actor record also carries         *)
(* `emitted`, the events emitted by the handler that ran last.             *)
(***************************************************************************)
EXTENDS Integers, Sequences, FiniteSets

VARIABLES focus, now, frame, calls, sceneRunning, player, enemy, spawner,
          ranged, projectile, game

vars == <<focus, now, frame, calls, sceneRunning, player, enemy, spawner,
          ranged, projectile, game>>

\* the parts added for the ranged enemy, the projectile and the item effects
others == <<ranged, projectile, game>>

----------------------------------------------------------------------------
(* Bounds of the model *)

\* length of one frame of the game loop, in ms
FrameMs == 100
\* number of frames explored
MaxFrames == 14
\* total experience granted in the leveling specification
MaxTotalXP == 1400
\* total experience granted to the Player in the combat specification
MaxCombatXP == 100
\* rings of vitality the Player can carry in the combat specification
MaxRings == 1
\* calls the environment makes on the Player (timer callbacks are not counted)
MaxPlayerCalls == 4
\* calls the environment makes on the Enemy
MaxEnemyCalls == 3
\* calls the environment makes in the spawner specification
MaxSpawnerCalls == 6
\* hitTarget calls made in the projectile specification
MaxProjectileCalls == 3

\* scene clock value at which the Game scene is created (the Boot and
\* Preloader scenes run before it)
StartTime == 2000

\* inputs drawn by the environment
XPGrants == {0, 1, 25, 100, 250, 900}
CombatXPGrants == {100}
DamageAmounts == {50, 100}
HealAmounts == {25}
EnemyDamageAmounts == DamageAmounts \cup {40}

----------------------------------------------------------------------------
(* GameConstants.ts *)

BASE_EXPERIENCE_TO_LEVEL == 100
\* EXPERIENCE_MULTIPLIER 1.5 as the fraction 3/2
EXPERIENCE_MULTIPLIER_NUM == 3
EXPERIENCE_MULTIPLIER_DEN == 2
BONUS_HEALTH == 10
BONUS_DAMAGE == 2
BONUS_SPEED == 5
SPEED_CAP == 300

----------------------------------------------------------------------------
(* Helpers *)

Max(a, b) == IF a >= b THEN a ELSE b
Min(a, b) == IF a <= b THEN a ELSE b

\* remove the i-th element of a sequence
RemoveAt(s, i) == [j \in 1..(Len(s) - 1) |-> IF j < i THEN s[j] ELSE s[j + 1]]

\* scene.time.delayedCall(delay, cb) / scene.tweens.add({... onComplete: cb})
Schedule(a, cb, delay, t) == [a EXCEPT !.pending = Append(@, [cb |-> cb, due |-> t + delay])]

\* this.emit(event)
Emit(a, event) == [a EXCEPT !.emitted = Append(@, event)]

\* a handler starts with no event emitted yet
Begin(a) == [a EXCEPT !.emitted = <<>>, !.rejected = FALSE]

Emitted(a, event) == \E i \in DOMAIN a.emitted : a.emitted[i] = event

DueTimers(a) == {i \in DOMAIN a.pending : a.pending[i].due <= now}

----------------------------------------------------------------------------
(* Player (src/unnamed/part_000) *)

PlayerStates == {"idle", "walking", "attacking", "hurt", "stunned", "blocking", "dead"}

Player_attackCooldown == 500
Player_invulnerabilityDuration == 1000
Player_attackRange == 80
Player_attackDuration == 300
Player_hurtDuration == 500
Player_stunDuration == 800
Player_deathFadeDuration == 1000
\* one leg of the invulnerability blink tween
Player_blinkDuration == 100

\* The invulnerability tween: duration 100 with yoyo is one 200 ms cycle, and
\* repeat = invulnerabilityDuration / 200 adds that many cycles to the first
\* (Enemy.startSpawnBlink: "repeats are additional cycles beyond the first").
Player_invulnerabilityTweenMs == ((Player_invulnerabilityDuration \div 200) + 1) * (2 * Player_blinkDuration)

Player_new == [
    maxHealth |-> 100, currentHealth |-> 100, attackDamage |-> 20, speed |-> 200,
    level |-> 1, experience |-> 0,
    experienceToNextLevel |-> BASE_EXPERIENCE_TO_LEVEL, totalExperience |-> 0,
    currentState |-> "idle", lastAttackTime |-> 0,
    isInvulnerable |-> FALSE, isAttacking |-> FALSE, isBlocking |-> FALSE,
    pending |-> <<>>, emitted |-> <<>>,
    \* history: death events emitted, whether die() has run, time of the last
    \* attack intent, whether the handler that ran last was an attack() that
    \* returned early, takeDamage calls applied since the invulnerability
    \* window opened, and the rings of vitality carried
    deaths |-> 0, died |-> FALSE, intentAt |-> -1, rejected |-> FALSE,
    windowHits |-> 0, rings |-> 0,
    \* history: time of the hit that opened the last invulnerability window,
    \* and for each levelUp event the bonuses.speed it carried next to the
    \* speed its level-up added
    windowAt |-> -1, levelBonuses |-> <<>>]

Player_makeInvulnerable(p, t) ==
    Schedule([p EXCEPT !.isInvulnerable = TRUE, !.windowAt = t],
             "invulnEnd", Player_invulnerabilityTweenMs, t)

Player_onStateChange(p, state, t) ==
    LET p1 == IF p.currentState = "blocking" /\ state # "blocking"
              THEN [p EXCEPT !.isBlocking = FALSE] ELSE p
    IN CASE state = "attacking" ->
              Schedule([p1 EXCEPT !.isAttacking = TRUE], "attackEnd", Player_attackDuration, t)
         [] state = "hurt" ->
              Schedule(Player_makeInvulnerable(p1, t), "hurtEnd", Player_hurtDuration, t)
         [] state = "stunned" ->
              Schedule(p1, "stunEnd", Player_stunDuration, t)
         [] state = "blocking" ->
              [p1 EXCEPT !.isBlocking = TRUE]
         [] OTHER -> p1

Player_setPlayerState(p, newState, t) ==
    IF p.currentState # newState
    THEN Player_onStateChange([p EXCEPT !.currentState = newState], newState, t)
    ELSE p

\* variant of canAttack() without the cooldown term; C9 fails on it
Player_canAttack_noCooldown(p, t) ==
    /\ ~p.isAttacking
    /\ p.currentState # "stunned"
    /\ p.currentState # "blocking"

Player_canAttack(p, t) ==
    /\ ~p.isAttacking
    /\ p.currentState # "stunned"
    /\ p.currentState # "blocking"
    /\ (t - p.lastAttackTime) >= Player_attackCooldown

Player_attack(p, t) ==
    IF ~Player_canAttack(p, t) THEN p
    ELSE LET p1 == Player_setPlayerState([p EXCEPT !.lastAttackTime = t], "attacking", t)
         IN Emit([p1 EXCEPT !.intentAt = t], "attack")

Player_die(p, t) ==
    LET p1 == Player_setPlayerState(p, "dead", t)
    IN Schedule([p1 EXCEPT !.isBlocking = FALSE, !.isAttacking = FALSE, !.died = TRUE],
                "deathFade", Player_deathFadeDuration, t)

\* variant of takeDamage() without the blocking reduction; C12 fails on it
Player_takeDamage_noBlock(p, damage, t) ==
    IF p.isInvulnerable \/ p.currentState = "dead" THEN p
    ELSE LET p1 == [p EXCEPT !.currentHealth = Max(0, p.currentHealth - damage),
                             !.windowHits = IF p.isInvulnerable THEN @ + 1 ELSE 1]
             p2 == IF p1.currentHealth <= 0 THEN Player_die(p1, t)
                   ELSE IF p1.currentState # "blocking"
                        THEN Player_makeInvulnerable(Player_setPlayerState(p1, "stunned", t), t)
                        ELSE p1
         IN Emit(p2, "damage")

Player_takeDamage(p, damage, t) ==
    IF p.isInvulnerable \/ p.currentState = "dead" THEN p
    ELSE LET dmg == IF p.isBlocking /\ p.currentState = "blocking"
                    THEN damage \div 10 ELSE damage
             p1 == [p EXCEPT !.currentHealth = Max(0, p.currentHealth - dmg),
                             !.windowHits = IF p.isInvulnerable THEN @ + 1 ELSE 1]
             p2 == IF p1.currentHealth <= 0 THEN Player_die(p1, t)
                   ELSE IF p1.currentState # "blocking"
                        THEN Player_makeInvulnerable(Player_setPlayerState(p1, "stunned", t), t)
                        ELSE p1
         IN Emit(p2, "damage")

\* variant of heal() without the Math.min clamp; C4 fails on it
Player_heal_noClamp(p, amount) ==
    Emit([p EXCEPT !.currentHealth = p.currentHealth + amount], "heal")

Player_heal(p, amount) ==
    Emit([p EXCEPT !.currentHealth = Min(p.maxHealth, p.currentHealth + amount)], "heal")

Player_startBlocking(p, t) ==
    IF p.currentState = "idle" \/ p.currentState = "walking"
    THEN Player_setPlayerState(p, "blocking", t) ELSE p

Player_stopBlocking(p, t) ==
    IF p.currentState = "blocking"
    THEN Player_setPlayerState([p EXCEPT !.isBlocking = FALSE], "idle", t) ELSE p

\* variant of getExperienceForLevel() with exponent level; C2 fails on it
ExperienceForLevel_offByOne(level) ==
    (BASE_EXPERIENCE_TO_LEVEL * EXPERIENCE_MULTIPLIER_NUM ^ level)
        \div (EXPERIENCE_MULTIPLIER_DEN ^ level)

\* Math.floor(BASE_EXPERIENCE_TO_LEVEL * Math.pow(EXPERIENCE_MULTIPLIER, level - 1))
ExperienceForLevel(level) ==
    (BASE_EXPERIENCE_TO_LEVEL * EXPERIENCE_MULTIPLIER_NUM ^ (level - 1))
        \div (EXPERIENCE_MULTIPLIER_DEN ^ (level - 1))

\* variant of applyLevelUpBonuses() without the speed cap; C25 fails on it
Player_applyLevelUpBonuses_noCap(p) ==
    [p EXCEPT !.maxHealth = @ + BONUS_HEALTH,
              !.currentHealth = @ + BONUS_HEALTH,
              !.attackDamage = @ + BONUS_DAMAGE,
              !.speed = @ + BONUS_SPEED]

Player_applyLevelUpBonuses(p) ==
    [p EXCEPT !.maxHealth = @ + BONUS_HEALTH,
              !.currentHealth = @ + BONUS_HEALTH,
              !.attackDamage = @ + BONUS_DAMAGE,
              !.speed = IF @ < SPEED_CAP THEN @ + BONUS_SPEED ELSE @]

\* getLastLevelBonuses(): reads this.speed as it is when the event is built
Player_getLastLevelBonuses(p) ==
    [health |-> BONUS_HEALTH, damage |-> BONUS_DAMAGE,
     speed |-> IF p.speed < SPEED_CAP THEN BONUS_SPEED ELSE 0]

Player_levelUp(p) ==
    LET p1 == [p EXCEPT !.experience = @ - p.experienceToNextLevel,
                        !.level = @ + 1,
                        !.experienceToNextLevel = ExperienceForLevel(p.level + 1)]
        p2 == Player_applyLevelUpBonuses(p1)
    IN Emit([p2 EXCEPT !.levelBonuses =
                           Append(@, [speed |-> Player_getLastLevelBonuses(p2).speed,
                                      added |-> p2.speed - p1.speed])],
            "levelUp")

\* variant of the while loop of gainExperience() as a single if; C1 fails on it
Player_levelLoop_once(p) ==
    IF p.experience >= p.experienceToNextLevel THEN Player_levelUp(p) ELSE p

RECURSIVE Player_levelLoop(_)
Player_levelLoop(p) ==
    IF p.experience >= p.experienceToNextLevel
    THEN Player_levelLoop(Player_levelUp(p))
    ELSE p

Player_gainExperience(p, amount) ==
    Emit(Player_levelLoop([p EXCEPT !.experience = @ + amount,
                                    !.totalExperience = @ + amount]),
         "experienceGain")

----------------------------------------------------------------------------
(* Enemy (src/src/game/Enemy.ts) *)

ENEMY_ATTACK_COOLDOWN == 2000
ENEMY_ACTION_COOLDOWN == 1500
ENEMY_ATTACK_WINDUP_TIME == 800
ENEMY_ATTACK_DURATION == 600
Enemy_invulnerabilityDuration == 500
Enemy_attackRange == 70
Enemy_detectionRange == 200
Enemy_verticalAttackTolerance == 28
Enemy_blockDuration == 800
Enemy_hurtDuration == 400
Enemy_removeDelay == 2000
Enemy_drag == 300
Enemy_movingThreshold == 10

\* offsets (playerX - this.x, playerY - this.y) the environment presents
Offsets == {<<50, 0>>, <<-40, 30>>, <<150, 0>>, <<120, 160>>, <<300, 0>>}

Abs(n) == IF n < 0 THEN -n ELSE n
Sign(n) == IF n > 0 THEN 1 ELSE IF n < 0 THEN -1 ELSE 0

\* Math.sqrt on the squares the model presents (exact on Offsets)
Isqrt(n) == CHOOSE r \in 0..n : r * r <= n /\ (r + 1) * (r + 1) > n

\* division of a signed numerator by a positive denominator, toward zero
Quot(a, b) == Sign(a) * (Abs(a) \div b)

Enemy_new == [
    maxHealth |-> 80, currentHealth |-> 80, attackDamage |-> 15, speed |-> 100,
    currentState |-> "idle", lastAttackTime |-> 0,
    isInvulnerable |-> FALSE, isAttacking |-> FALSE, isBlocking |-> FALSE,
    isWindingUp |-> FALSE, lastActionTime |-> 0,
    velocity |-> [x |-> 0, y |-> 0], flipX |-> FALSE, active |-> TRUE,
    pending |-> <<>>, emitted |-> <<>>,
    \* history: death events emitted, takeDamage calls applied since the
    \* invulnerability window opened (rejected is the Player's, kept FALSE),
    \* time of the last update() whose AI loop changed velocity or state
    \* time of the last swing that attack() cancelled for lost alignment
    deaths |-> 0, rejected |-> FALSE, windowHits |-> 0, decisionAt |-> -1,
    cancelledAt |-> -1]

Enemy_setVelocity(e, vx, vy) == [e EXCEPT !.velocity = [x |-> vx, y |-> vy]]

Enemy_makeInvulnerable(e, t) ==
    Schedule([e EXCEPT !.isInvulnerable = TRUE], "invulnEnd", Enemy_invulnerabilityDuration, t)

\* variant of onStateChange() that schedules no end of the attack; C29 fails
\* on it
Enemy_onStateChange_noAttackEnd(e, state, t) ==
    CASE state = "attacking" -> Enemy_setVelocity([e EXCEPT !.isAttacking = TRUE], 0, 0)
      [] state = "blocking" ->
            Schedule(Enemy_setVelocity([e EXCEPT !.isBlocking = TRUE], 0, 0),
                     "blockEnd", Enemy_blockDuration, t)
      [] state = "hurt" ->
            Schedule(Enemy_makeInvulnerable(Enemy_setVelocity(e, 0, 0), t),
                     "hurtEnd", Enemy_hurtDuration, t)
      [] OTHER -> e

Enemy_onStateChange(e, state, t) ==
    CASE state = "attacking" ->
            Schedule(Enemy_setVelocity([e EXCEPT !.isAttacking = TRUE], 0, 0),
                     "attackEnd", ENEMY_ATTACK_DURATION, t)
      [] state = "blocking" ->
            Schedule(Enemy_setVelocity([e EXCEPT !.isBlocking = TRUE], 0, 0),
                     "blockEnd", Enemy_blockDuration, t)
      [] state = "hurt" ->
            Schedule(Enemy_makeInvulnerable(Enemy_setVelocity(e, 0, 0), t),
                     "hurtEnd", Enemy_hurtDuration, t)
      [] OTHER -> e

Enemy_setEnemyState(e, newState, t) ==
    IF e.currentState # newState
    THEN Enemy_onStateChange([e EXCEPT !.currentState = newState], newState, t)
    ELSE e

Enemy_canAttack(e, t) == t - e.lastAttackTime >= ENEMY_ATTACK_COOLDOWN

\* variant of attack() without the alignment re-check; C18 fails on it
Enemy_attack_noRecheck(e, dy, t) ==
    IF ~Enemy_canAttack(e, t) /\ ~e.isWindingUp THEN e
    ELSE Emit(Enemy_setEnemyState([e EXCEPT !.lastAttackTime = t], "attacking", t), "attack")

\* attack(): dy is player.y - this.y at the moment of the call
\* variant of attack() that records lastAttackTime only for a swing it
\* carries out; C36 fails on it
Enemy_attack_checkFirst(e, dy, t) ==
    IF ~Enemy_canAttack(e, t) /\ ~e.isWindingUp THEN e
    ELSE LET e1 == Enemy_setEnemyState(e, "attacking", t)
         IN IF Abs(dy) > Enemy_verticalAttackTolerance
            THEN Enemy_setEnemyState([e1 EXCEPT !.cancelledAt = t], "walking", t)
            ELSE Emit([e1 EXCEPT !.lastAttackTime = t], "attack")

Enemy_attack(e, dy, t) ==
    IF ~Enemy_canAttack(e, t) /\ ~e.isWindingUp THEN e
    ELSE LET e1 == Enemy_setEnemyState([e EXCEPT !.lastAttackTime = t], "attacking", t)
         IN IF Abs(dy) > Enemy_verticalAttackTolerance
            THEN Enemy_setEnemyState([e1 EXCEPT !.cancelledAt = t], "walking", t)
            ELSE Emit(e1, "attack")

Enemy_startAttackWindup(e, t) ==
    Schedule(Enemy_setVelocity([e EXCEPT !.isWindingUp = TRUE], 0, 0),
             "windup", ENEMY_ATTACK_WINDUP_TIME, t)

Enemy_die(e, t) ==
    LET e1 == Enemy_setVelocity(Enemy_setEnemyState(e, "dead", t), 0, 0)
    IN Schedule(Emit([e1 EXCEPT !.deaths = @ + 1], "death"), "remove", Enemy_removeDelay, t)

\* variant of takeDamage() without the isInvulnerable guard; C8 fails on it
Enemy_takeDamage_noWindow(e, damage, roll, t) ==
    IF e.currentState = "dead" THEN e
    ELSE LET dmg == IF e.isBlocking /\ roll THEN (damage * 3) \div 10 ELSE damage
             e1 == [e EXCEPT !.currentHealth = Max(0, e.currentHealth - dmg),
                             !.windowHits = IF e.isInvulnerable THEN @ + 1 ELSE 1]
             e2 == IF e1.currentHealth <= 0 THEN Enemy_die(e1, t)
                   ELSE Enemy_setEnemyState(e1, "hurt", t)
         IN Emit(e2, "damage")

\* takeDamage(): roll is the outcome of Math.random() < 0.7
Enemy_takeDamage(e, damage, roll, t) ==
    IF e.isInvulnerable \/ e.currentState = "dead" THEN e
    ELSE LET dmg == IF e.isBlocking /\ roll THEN (damage * 3) \div 10 ELSE damage
             e1 == [e EXCEPT !.currentHealth = Max(0, e.currentHealth - dmg),
                             !.windowHits = IF e.isInvulnerable THEN @ + 1 ELSE 1]
             e2 == IF e1.currentHealth <= 0 THEN Enemy_die(e1, t)
                   ELSE Enemy_setEnemyState(e1, "hurt", t)
         IN Emit(e2, "damage")

Enemy_startBlocking(e, t) ==
    IF e.currentState = "idle" \/ e.currentState = "walking"
    THEN Enemy_setEnemyState(e, "blocking", t) ELSE e

Enemy_moveTowardsPlayer(e, dx, dy) ==
    LET distance == Isqrt(dx * dx + dy * dy)
    IN IF distance > 0
       THEN Enemy_setVelocity(e, Quot(dx * e.speed, distance), Quot(dy * e.speed, distance))
       ELSE e

Enemy_repositionForAttack(e, dx, dy, horizontallyInRange, verticallyAligned) ==
    IF horizontallyInRange /\ ~verticallyAligned
    THEN Enemy_setVelocity(e, 0, Sign(dy) * e.speed)
    ELSE IF ~horizontallyInRange /\ verticallyAligned
         THEN Enemy_setVelocity(e, Sign(dx) * e.speed, 0)
         ELSE Enemy_moveTowardsPlayer(e, dx, dy)

\* variant of updateAI() without the busy-state guard; C28 fails on it
Enemy_updateAI_noBusyGuard(e, dx, dy, t) ==
    LET horizontallyInRange == Abs(dx) <= Enemy_attackRange
        verticallyAligned == Abs(dy) <= Enemy_verticalAttackTolerance
    IN IF t - e.lastActionTime < ENEMY_ACTION_COOLDOWN THEN e
       ELSE IF dx * dx + dy * dy <= Enemy_detectionRange * Enemy_detectionRange
            THEN IF horizontallyInRange /\ verticallyAligned
                 THEN IF Enemy_canAttack(e, t)
                      THEN [Enemy_startAttackWindup(e, t) EXCEPT !.lastActionTime = t]
                      ELSE e
                 ELSE Enemy_setEnemyState(
                          Enemy_repositionForAttack(e, dx, dy, horizontallyInRange, verticallyAligned),
                          "walking", t)
            ELSE Enemy_setEnemyState(Enemy_setVelocity(e, 0, 0), "idle", t)

Enemy_updateAI(e, dx, dy, t) ==
    IF e.currentState \in {"attacking", "hurt", "blocking"} \/ e.isWindingUp THEN e
    ELSE LET horizontallyInRange == Abs(dx) <= Enemy_attackRange
             verticallyAligned == Abs(dy) <= Enemy_verticalAttackTolerance
         IN IF t - e.lastActionTime < ENEMY_ACTION_COOLDOWN THEN e
            ELSE IF dx * dx + dy * dy <= Enemy_detectionRange * Enemy_detectionRange
                 THEN IF horizontallyInRange /\ verticallyAligned
                      THEN IF Enemy_canAttack(e, t)
                           THEN [Enemy_startAttackWindup(e, t) EXCEPT !.lastActionTime = t]
                           ELSE e
                      ELSE Enemy_setEnemyState(
                               Enemy_repositionForAttack(e, dx, dy, horizontallyInRange, verticallyAligned),
                               "walking", t)
                 ELSE Enemy_setEnemyState(Enemy_setVelocity(e, 0, 0), "idle", t)

Enemy_updateState(e, t) ==
    IF e.currentState \in {"attacking", "hurt", "blocking"} THEN e
    ELSE IF Abs(e.velocity.x) > Enemy_movingThreshold \/ Abs(e.velocity.y) > Enemy_movingThreshold
         THEN Enemy_setEnemyState(e, "walking", t)
         ELSE Enemy_setEnemyState(e, "idle", t)

\* updateAI() changed the velocity or the state, or started a windup
Enemy_aiChanged(e, e1) ==
    \/ e1.velocity # e.velocity
    \/ e1.currentState # e.currentState
    \/ e1.isWindingUp # e.isWindingUp

\* update(playerX, playerY): updateFacing, updateAI, updateState
Enemy_update(e, dx, dy, t) ==
    IF e.currentState = "dead" THEN e
    ELSE LET e1 == Enemy_updateAI([e EXCEPT !.flipX = (dx < 0)], dx, dy, t)
             e2 == IF Enemy_aiChanged(e, e1) THEN [e1 EXCEPT !.decisionAt = t] ELSE e1
         IN Enemy_updateState(e2, t)

\* variant of the callbacks whose hurt-end callback does nothing; C14 fails on it
Enemy_callback_noHurtEnd(e, cb, dy, t) ==
    CASE cb = "attackEnd" -> Enemy_setEnemyState([e EXCEPT !.isAttacking = FALSE], "idle", t)
      [] cb = "blockEnd" -> Enemy_setEnemyState([e EXCEPT !.isBlocking = FALSE], "idle", t)
      [] cb = "hurtEnd" -> e
      [] cb = "invulnEnd" -> [e EXCEPT !.isInvulnerable = FALSE]
      [] cb = "windup" -> Enemy_attack([e EXCEPT !.isWindingUp = FALSE], dy, t)
      [] cb = "remove" -> [e EXCEPT !.active = FALSE]

\* callbacks of the Enemy's delayed calls; dy is read by attack()
Enemy_callback(e, cb, dy, t) ==
    CASE cb = "attackEnd" -> Enemy_setEnemyState([e EXCEPT !.isAttacking = FALSE], "idle", t)
      [] cb = "blockEnd" -> Enemy_setEnemyState([e EXCEPT !.isBlocking = FALSE], "idle", t)
      [] cb = "hurtEnd" -> IF e.currentHealth > 0 THEN Enemy_setEnemyState(e, "idle", t) ELSE e
      [] cb = "invulnEnd" -> [e EXCEPT !.isInvulnerable = FALSE]
      [] cb = "windup" -> Enemy_attack([e EXCEPT !.isWindingUp = FALSE], dy, t)
      [] cb = "remove" -> [e EXCEPT !.active = FALSE]

\* the callbacks when they fire after destroy(), which leaves the clock's
\* delayed calls in place and clears this.scene: setEnemyState(IDLE) touches
\* no scene, attack() throws in canAttack() after the flag is cleared, a
\* second destroy() returns at once
Enemy_callbackDestroyed(e, cb) ==
    CASE cb = "attackEnd" -> [e EXCEPT !.isAttacking = FALSE, !.currentState = "idle"]
      [] cb = "blockEnd" -> [e EXCEPT !.isBlocking = FALSE, !.currentState = "idle"]
      [] cb = "hurtEnd" -> IF e.currentHealth > 0 THEN [e EXCEPT !.currentState = "idle"] ELSE e
      [] cb = "invulnEnd" -> [e EXCEPT !.isInvulnerable = FALSE]
      [] cb = "windup" -> [e EXCEPT !.isWindingUp = FALSE]
      [] cb = "remove" -> e

\* arcade physics between two frames: drag slows each velocity component
Drag(v, ms) ==
    LET d == (Enemy_drag * ms) \div 1000
    IN IF v - d > 0 THEN v - d ELSE IF v + d < 0 THEN v + d ELSE 0

Enemy_physics(e, ms) == Enemy_setVelocity(e, Drag(e.velocity.x, ms), Drag(e.velocity.y, ms))

----------------------------------------------------------------------------
(* Inventory (src/src/game/inventory/InventoryController.ts) *)

HOTBAR_SLOTS == 6

Inventory_new == [i \in 1..HOTBAR_SLOTS |-> "null"]

\* the keys of DEFINITIONS (src/unnamed/part_008)
ItemIds == {"potion_health_small", "potion_attack_tonic", "potion_speed_draught",
            "item_boots_haste", "item_amulet_strength", "item_ring_vitality"}

\* names every object inherits from Object.prototype; DEFINITIONS is a plain
\* object literal, so DEFINITIONS[name] is a function for each of them
ObjectPrototypeKeys == {"constructor", "toString", "valueOf", "hasOwnProperty"}

\* ItemRegistry.get(id) as add() tests it: DEFINITIONS[id] is truthy
ItemRegistry_get(id) == id \in ItemIds \cup ObjectPrototypeKeys

Inventory_isFull(slots) == \A i \in DOMAIN slots : slots[i] # "null"

\* slots.findIndex(s => s === null): slot i of the model is index i - 1 of the
\* array, so 0 stands for the result -1
Inventory_findEmpty(slots) ==
    IF \E i \in DOMAIN slots : slots[i] = "null"
    THEN CHOOSE i \in DOMAIN slots : slots[i] = "null" /\ \A j \in 1..(i - 1) : slots[j] # "null"
    ELSE 0

\* add(): an unknown id and a full inventory are refused; otherwise the first
\* empty slot takes the item
Inventory_addResult(slots, itemId) ==
    IF ~ItemRegistry_get(itemId) THEN [success |-> FALSE, reason |-> "invalid"]
    ELSE IF Inventory_findEmpty(slots) = 0 THEN [success |-> FALSE, reason |-> "full"]
    ELSE [success |-> TRUE, reason |-> "none"]

Inventory_add(slots, itemId) ==
    IF Inventory_addResult(slots, itemId).success
    THEN [slots EXCEPT ![Inventory_findEmpty(slots)] = itemId]
    ELSE slots

\* a slot index as the caller passes it, in halves: 2 * i stands for the
\* integer i and an odd value for a number that is not an integer
Inventory_isValidIndex(slots, h) ==
    h % 2 = 0 /\ h \div 2 >= 0 /\ h \div 2 < Len(slots)

Inventory_getAt(slots, h) ==
    IF ~Inventory_isValidIndex(slots, h) THEN "null" ELSE slots[(h \div 2) + 1]

\* removeAt(): the slot is cleared; the return value is that of getAt before
Inventory_removeAt(slots, h) ==
    IF ~Inventory_isValidIndex(slots, h) THEN slots
    ELSE [slots EXCEPT ![(h \div 2) + 1] = "null"]

Inventory_swap(slots, a, b) ==
    IF ~Inventory_isValidIndex(slots, a) \/ ~Inventory_isValidIndex(slots, b) \/ a = b
    THEN slots
    ELSE [slots EXCEPT ![(a \div 2) + 1] = slots[(b \div 2) + 1],
                       ![(b \div 2) + 1] = slots[(a \div 2) + 1]]

\* an inventory whose first n slots hold health potions
Inventory_filled(n) ==
    [i \in 1..HOTBAR_SLOTS |-> IF i <= n THEN "potion_health_small" ELSE "null"]

----------------------------------------------------------------------------
(* EnemySpawner (src/unnamed/part_002) *)

SCREEN_WIDTH == 1024
SCREEN_HEIGHT == 768
WORLD_WIDTH == 3000
MAX_ENEMIES == 3
SPAWN_INTERVAL == 400
TRIGGER_DISTANCE == 200
SPAWN_OFFSET_FROM_EDGE == 50
BASIC_ENEMY_XP == 25

\* GROUND_HEIGHT_RATIO 0.5: PHYSICS_START_Y and PHYSICS_HEIGHT are half the screen
PHYSICS_START_Y == SCREEN_HEIGHT \div 2
PHYSICS_HEIGHT == SCREEN_HEIGHT \div 2

\* values of this.player.x the environment presents
PlayerXs == {200, 900, 1224, 1700}

\* setupSpawnPoints(): for (x = SCREEN_WIDTH; x < WORLD_WIDTH; x += spawnInterval),
\* a top and a bottom point per x
Spawner_setupSpawnPoints ==
    LET columns == ((WORLD_WIDTH - SCREEN_WIDTH - 1) \div SPAWN_INTERVAL) + 1
    IN [i \in 1..(2 * columns) |->
           [x |-> SCREEN_WIDTH + SPAWN_INTERVAL * ((i - 1) \div 2),
            y |-> IF i % 2 = 1
                  THEN PHYSICS_START_Y + SPAWN_OFFSET_FROM_EDGE
                  ELSE PHYSICS_START_Y + PHYSICS_HEIGHT - SPAWN_OFFSET_FROM_EDGE,
            triggered |-> FALSE,
            triggerDistance |-> TRIGGER_DISTANCE]]

Spawner_new == [
    spawnPoints |-> Spawner_setupSpawnPoints,
    enemies |-> <<>>,
    maxEnemies |-> MAX_ENEMIES,
    playerX |-> 200,
    slots |-> Inventory_new,
    \* history: enemies created so far, and per spawn point the enemies it
    \* has spawned since the last reset()
    created |-> 0,
    spawns |-> [i \in DOMAIN Spawner_setupSpawnPoints |-> 0],
    \* history: drops rolled while every slot was occupied
    fullDrops |-> 0,
    \* history: calls of reset(), and per spawn point the enemies it has ever spawned
    resets |-> 0,
    totals |-> [i \in DOMAIN Spawner_setupSpawnPoints |-> 0],
    \* history: per spawn point, whether the loop has passed it over in
    \* trigger distance because the live list was full, since the last reset()
    deferred |-> [i \in DOMAIN Spawner_setupSpawnPoints |-> FALSE]]

\* spawnEnemyAt(): a new Enemy is pushed on the live list
Spawner_spawnEnemyAt(sp, i) ==
    [sp EXCEPT !.enemies = Append(@, [id |-> sp.created + 1, point |-> i, active |-> TRUE]),
               !.created = @ + 1,
               !.spawns[i] = @ + 1,
               !.totals[i] = @ + 1]

\* variant of the loop's guard without the population cap; C11 fails on it
Spawner_canSpawn_noCap(sp, i) == ~sp.spawnPoints[i].triggered

\* the guard of the loop of checkSpawnTriggers()
Spawner_canSpawn(sp, i) ==
    ~sp.spawnPoints[i].triggered /\ Len(sp.enemies) < sp.maxEnemies

\* variant of the loop body that leaves triggered unset; C10 fails on it
Spawner_checkSpawnPoint_noLatch(sp, i) ==
    IF Spawner_canSpawn(sp, i)
    THEN IF Abs(sp.playerX - sp.spawnPoints[i].x) <= sp.spawnPoints[i].triggerDistance
         THEN Spawner_spawnEnemyAt(sp, i)
         ELSE sp
    ELSE sp

\* the untriggered point i is in trigger distance
Spawner_inTriggerDistance(sp, i) ==
    /\ ~sp.spawnPoints[i].triggered
    /\ Abs(sp.playerX - sp.spawnPoints[i].x) <= sp.spawnPoints[i].triggerDistance

\* variant of the loop body that marks a point passed over for a full list
\* as triggered; C38 fails on it
Spawner_checkSpawnPoint_latchFull(sp, i) ==
    IF Spawner_canSpawn(sp, i)
    THEN IF Abs(sp.playerX - sp.spawnPoints[i].x) <= sp.spawnPoints[i].triggerDistance
         THEN [Spawner_spawnEnemyAt(sp, i) EXCEPT !.spawnPoints[i].triggered = TRUE]
         ELSE sp
    ELSE IF Spawner_inTriggerDistance(sp, i)
         THEN [sp EXCEPT !.deferred[i] = TRUE, !.spawnPoints[i].triggered = TRUE]
         ELSE sp

\* the body of the loop of checkSpawnTriggers() for spawn point i
Spawner_checkSpawnPoint(sp, i) ==
    IF Spawner_canSpawn(sp, i)
    THEN IF Abs(sp.playerX - sp.spawnPoints[i].x) <= sp.spawnPoints[i].triggerDistance
         THEN [Spawner_spawnEnemyAt(sp, i) EXCEPT !.spawnPoints[i].triggered = TRUE]
         ELSE sp
    ELSE IF Spawner_inTriggerDistance(sp, i)
         THEN [sp EXCEPT !.deferred[i] = TRUE]
         ELSE sp

RECURSIVE Spawner_checkSpawnTriggers(_, _)
Spawner_checkSpawnTriggers(sp, i) ==
    IF i > Len(sp.spawnPoints) THEN sp
    ELSE Spawner_checkSpawnTriggers(Spawner_checkSpawnPoint(sp, i), i + 1)

Spawner_cleanupDeadEnemies(sp) ==
    [sp EXCEPT !.enemies = SelectSeq(@, LAMBDA en : en.active)]

Spawner_update(sp) == Spawner_cleanupDeadEnemies(Spawner_checkSpawnTriggers(sp, 1))

\* variant of removeEnemy() that leaves the list as it is; C20 fails on it
Spawner_removeEnemy_keep(sp, id) == sp

\* removeEnemy(): indexOf and splice
Spawner_removeEnemy(sp, id) ==
    [sp EXCEPT !.enemies = SelectSeq(@, LAMBDA en : en.id # id)]

\* variant of handleEnemyItemDrop() that puts the drop in the last slot of a
\* full inventory; C21 fails on it
Spawner_handleEnemyItemDrop_overwrite(sp, dropRoll) ==
    IF dropRoll
    THEN IF ~Inventory_isFull(sp.slots)
         THEN [sp EXCEPT !.slots = Inventory_add(@, "potion_health_small")]
         ELSE [sp EXCEPT !.slots[HOTBAR_SLOTS] = "potion_attack_tonic", !.fullDrops = @ + 1]
    ELSE sp

\* handleEnemyItemDrop(): a level-1 enemy drops from the pool ['potion_health_small']
Spawner_handleEnemyItemDrop(sp, dropRoll) ==
    IF dropRoll
    THEN IF ~Inventory_isFull(sp.slots)
         THEN [sp EXCEPT !.slots = Inventory_add(@, "potion_health_small")]
         ELSE [sp EXCEPT !.fullDrops = @ + 1]
    ELSE sp

\* variant of reset() that leaves the triggered flags set; C22 fails on it
Spawner_reset_keepTriggered(sp) ==
    [sp EXCEPT !.enemies = <<>>,
               !.spawns = [i \in DOMAIN @ |-> 0],
               !.resets = @ + 1,
               !.deferred = [i \in DOMAIN @ |-> FALSE]]

\* reset(): triggered flags cleared, every live enemy destroyed, list emptied
Spawner_reset(sp) ==
    [sp EXCEPT !.spawnPoints = [i \in DOMAIN @ |-> [@[i] EXCEPT !.triggered = FALSE]],
               !.enemies = <<>>,
               !.spawns = [i \in DOMAIN @ |-> 0],
               !.resets = @ + 1,
               !.deferred = [i \in DOMAIN @ |-> FALSE]]

----------------------------------------------------------------------------
(* Initial values of the parts not under test *)

Spawner_none == Spawner_new

Ranged_none == [fired |-> FALSE]

Projectile_none == [active |-> FALSE]

Game_none == [
    slots |-> Inventory_new, pending |-> <<>>,
    \* the return value of the inventory operation that ran last
    result |-> [op |-> "none", success |-> TRUE, value |-> "none"],
    \* history: timed buffs applied and reverted, and per stat the value it
    \* has without the buffs in force
    applied |-> 0, reverted |-> 0, baseAttackDamage |-> 0, baseSpeed |-> 0]

----------------------------------------------------------------------------
(* Leveling specification: experience grants to a fresh Player *)

\* speed of the Player when the grants start: the field's initial value, with
\* a speed draught applied (+80), and with boots of haste carried as well (+60)
StartSpeeds == {200, 280, 340}

InitLeveling ==
    /\ focus = "leveling"
    /\ now = 0
    /\ frame = 0
    /\ calls = 0
    /\ sceneRunning = TRUE
    /\ \E speed \in StartSpeeds : player = [Player_new EXCEPT !.speed = speed]
    /\ enemy = Enemy_new
    /\ spawner = Spawner_none
    /\ ranged = Ranged_none
    /\ projectile = Projectile_none
    /\ game = Game_none

GainExperience(amount) ==
    /\ focus = "leveling"
    /\ player.totalExperience + amount <= MaxTotalXP
    /\ player' = Player_gainExperience(Begin(player), amount)
    /\ UNCHANGED <<focus, now, frame, calls, sceneRunning, enemy, spawner, others>>

NextLeveling == \E amount \in XPGrants : GainExperience(amount)

SpecLeveling == InitLeveling /\ [][NextLeveling]_vars

----------------------------------------------------------------------------
(* Game scene (src/unnamed/part_006) *)

RING_VITALITY_AMOUNT == 25

\* Math.round(newMax * (currentHealth / maxHealth)); at an exact half the
\* floating-point product may land on either side, so tieUp picks the side
RoundRatio(newMax, cur, max, tieUp) ==
    LET twice == 2 * newMax * cur
    IN IF twice % (2 * max) = max
       THEN (IF tieUp THEN (twice + max) \div (2 * max) ELSE (twice - max) \div (2 * max))
       ELSE (twice + max) \div (2 * max)

Game_adjustPlayerStat(p, stat, delta, tieUp) ==
    CASE stat = "attackDamage" -> [p EXCEPT !.attackDamage = Max(0, @ + delta)]
      [] stat = "maxHealth" ->
            LET newMax == Max(1, p.maxHealth + delta)
            IN [p EXCEPT !.maxHealth = newMax,
                         !.currentHealth =
                             Min(newMax, Max(0, RoundRatio(newMax, p.currentHealth, p.maxHealth, tieUp)))]
      [] stat = "speed" -> [p EXCEPT !.speed = Max(0, @ + delta)]

\* inventory 'add' listener for item_ring_vitality
Game_applyPermanentItem(p, tieUp) ==
    Game_adjustPlayerStat(p, "maxHealth", RING_VITALITY_AMOUNT, tieUp)

\* inventory 'remove' listener for item_ring_vitality
Game_removePermanentItem(p, tieUp) ==
    LET p1 == Game_adjustPlayerStat(p, "maxHealth", -RING_VITALITY_AMOUNT, tieUp)
    IN IF p1.currentHealth > p1.maxHealth THEN [p1 EXCEPT !.currentHealth = p1.maxHealth] ELSE p1

POTION_HEAL_AMOUNT == 25
TONIC_ATTACK_AMOUNT == 10
DRAUGHT_SPEED_AMOUNT == 80
BUFF_DURATION_MS == 10000

\* ItemRegistry.get(id).potionUse of the three potions
Item_potionUse(id) ==
    CASE id = "potion_health_small" -> [kind |-> "heal", stat |-> "none",
                                        amount |-> POTION_HEAL_AMOUNT, durationMs |-> 0]
      [] id = "potion_attack_tonic" -> [kind |-> "timedBuff", stat |-> "attackDamage",
                                        amount |-> TONIC_ATTACK_AMOUNT,
                                        durationMs |-> BUFF_DURATION_MS]
      [] id = "potion_speed_draught" -> [kind |-> "timedBuff", stat |-> "speed",
                                         amount |-> DRAUGHT_SPEED_AMOUNT,
                                         durationMs |-> BUFF_DURATION_MS]
      [] OTHER -> [kind |-> "none", stat |-> "none", amount |-> 0, durationMs |-> 0]

\* variant of the revert callback that restores nothing; C26 fails on it
Game_revertBuff_skip(g, p, timer) ==
    [g |-> [g EXCEPT !.reverted = @ + 1], p |-> p]

\* the delayed call of consumePotion(): adjustPlayerStat(stat, -amount)
Game_revertBuff(g, p, timer) ==
    [g |-> [g EXCEPT !.reverted = @ + 1],
     p |-> Game_adjustPlayerStat(p, timer.stat, -timer.amount, TRUE)]

\* consumePotion(): heal, or apply the buff and schedule its revert; the
\* slot is cleared in both cases
Game_consumePotion(g, p, h, effect, t) ==
    IF effect.kind = "heal"
    THEN [g |-> [g EXCEPT !.slots = Inventory_removeAt(@, h)],
          p |-> Player_heal(p, effect.amount)]
    ELSE [g |-> [g EXCEPT !.slots = Inventory_removeAt(@, h),
                          !.pending = Append(@, [cb |-> "revertBuff",
                                                 due |-> t + effect.durationMs,
                                                 stat |-> effect.stat,
                                                 amount |-> effect.amount]),
                          !.applied = @ + 1],
          p |-> Game_adjustPlayerStat(p, effect.stat, effect.amount, TRUE)]

\* the 'inventory:use' listener: an empty slot and a non-potion do nothing
Game_onInventoryUse(g, p, h, t) ==
    LET id == Inventory_getAt(g.slots, h)
    IN IF id = "null" THEN [g |-> g, p |-> p]
       ELSE IF Item_potionUse(id).kind # "none"
            THEN Game_consumePotion(g, p, h, Item_potionUse(id), t)
            ELSE [g |-> g, p |-> p]

\* player 'death' listener: this.scene.start('GameOver') shuts the scene down
Game_onPlayerEvents(p) == ~Emitted(p, "death")

----------------------------------------------------------------------------
(* Player specification: the Player under arbitrary calls and timers *)

\* callbacks of the Player's delayed calls and tweens
Player_callback(p, cb, t) ==
    CASE cb = "attackEnd" -> Player_setPlayerState([p EXCEPT !.isAttacking = FALSE], "idle", t)
      [] cb = "hurtEnd" -> IF p.currentHealth > 0 THEN Player_setPlayerState(p, "idle", t) ELSE p
      [] cb = "stunEnd" -> IF p.currentHealth > 0 THEN Player_setPlayerState(p, "idle", t) ELSE p
      [] cb = "invulnEnd" -> [p EXCEPT !.isInvulnerable = FALSE]
      [] cb = "deathFade" -> Emit([p EXCEPT !.deaths = @ + 1], "death")

\* Player.update(): handleInput, then updateState
Player_update(p, moving, attackPressed, t) ==
    IF p.currentState = "dead" THEN p
    ELSE IF p.currentState \in {"attacking", "hurt", "stunned", "blocking"} THEN p
    ELSE LET p1 == IF attackPressed /\ Player_canAttack(p, t) THEN Player_attack(p, t) ELSE p
             isMoving == moving /\ p1.currentState # "attacking"
         IN IF p1.currentState \in {"attacking", "hurt", "stunned", "blocking", "dead"} THEN p1
            ELSE IF isMoving THEN Player_setPlayerState(p1, "walking", t)
                 ELSE Player_setPlayerState(p1, "idle", t)

InitPlayer ==
    /\ focus = "player"
    /\ now = StartTime
    /\ frame = 0
    /\ calls = 0
    /\ sceneRunning = TRUE
    /\ player = Player_new
    /\ enemy = Enemy_new
    /\ spawner = Spawner_none
    /\ ranged = Ranged_none
    /\ projectile = Projectile_none
    /\ game = Game_none

PlayerStep(p) ==
    /\ focus = "player"
    /\ sceneRunning
    /\ player' = p
    /\ sceneRunning' = Game_onPlayerEvents(p)
    /\ UNCHANGED <<focus, now, frame, enemy, spawner, others>>

\* a call made from another actor's callback, at any point of a frame
PlayerCallAnytime(p) ==
    /\ calls < MaxPlayerCalls
    /\ calls' = calls + 1
    /\ PlayerStep(p)

\* a call made from Scene.update(), which runs after the frame's due
\* delayed calls and tweens
PlayerCall(p) ==
    /\ DueTimers(player) = {}
    /\ PlayerCallAnytime(p)

PlayerTick ==
    /\ focus = "player"
    /\ sceneRunning
    /\ DueTimers(player) = {}
    /\ frame < MaxFrames
    /\ frame' = frame + 1
    /\ now' = now + FrameMs
    /\ player' = Begin(player)
    /\ UNCHANGED <<focus, calls, sceneRunning, enemy, spawner, others>>

\* the due delayed call or tween at position i fires
PlayerFireTimer(i) ==
    /\ i \in DueTimers(player)
    /\ UNCHANGED calls
    /\ PlayerStep(Player_callback([Begin(player) EXCEPT !.pending = RemoveAt(@, i)],
                                  player.pending[i].cb, now))

PlayerFire == \E i \in DOMAIN player.pending : PlayerFireTimer(i)

PlayerUpdate ==
    \E moving \in BOOLEAN, attackPressed \in BOOLEAN :
        PlayerCall(Player_update(Begin(player), moving, attackPressed, now))

PlayerAttack ==
    PlayerCall([Player_attack(Begin(player), now) EXCEPT
                   !.rejected = ~Player_canAttack(player, now)])

\* takeDamage() is called from Game.handleEnemyAttack, inside an enemy's callback
PlayerTakeDamage(damage) == PlayerCallAnytime(Player_takeDamage(Begin(player), damage, now))

PlayerHeal(amount) == PlayerCall(Player_heal(Begin(player), amount))

PlayerStartBlocking == PlayerCall(Player_startBlocking(Begin(player), now))

PlayerStopBlocking == PlayerCall(Player_stopBlocking(Begin(player), now))

PlayerGainExperience(amount) ==
    /\ player.totalExperience + amount <= MaxCombatXP
    /\ PlayerCall(Player_gainExperience(Begin(player), amount))

PlayerAddRing ==
    /\ player.rings < MaxRings
    /\ \E tieUp \in BOOLEAN :
          PlayerCall(Game_applyPermanentItem([Begin(player) EXCEPT !.rings = @ + 1], tieUp))

PlayerRemoveRing ==
    /\ player.rings > 0
    /\ \E tieUp \in BOOLEAN :
          PlayerCall(Game_removePermanentItem([Begin(player) EXCEPT !.rings = @ - 1], tieUp))

NextPlayer ==
    \/ PlayerTick
    \/ PlayerFire
    \/ PlayerUpdate
    \/ PlayerAttack
    \/ \E damage \in DamageAmounts : PlayerTakeDamage(damage)
    \/ \E amount \in HealAmounts : PlayerHeal(amount)
    \/ PlayerStartBlocking
    \/ PlayerStopBlocking
    \/ \E amount \in CombatXPGrants : PlayerGainExperience(amount)
    \/ PlayerAddRing
    \/ PlayerRemoveRing

SpecPlayer == InitPlayer /\ [][NextPlayer]_vars

----------------------------------------------------------------------------
(* Enemy specification: one melee Enemy under arbitrary calls and timers *)

InitEnemy ==
    /\ focus = "enemy"
    /\ now = StartTime
    /\ frame = 0
    /\ calls = 0
    /\ sceneRunning = TRUE
    /\ player = Player_new
    /\ enemy = Enemy_new
    /\ spawner = Spawner_none
    /\ ranged = Ranged_none
    /\ projectile = Projectile_none
    /\ game = Game_none

EnemyStep(e) ==
    /\ focus = "enemy"
    /\ enemy' = e
    /\ UNCHANGED <<focus, now, frame, sceneRunning, player, spawner, others>>

\* a call made from Scene.update(), which only addresses an active enemy and
\* runs after the frame's due delayed calls
EnemyCall(e) ==
    /\ enemy.active
    /\ DueTimers(enemy) = {}
    /\ calls < MaxEnemyCalls
    /\ calls' = calls + 1
    /\ EnemyStep(e)

EnemyTick ==
    /\ focus = "enemy"
    /\ enemy.active
    /\ DueTimers(enemy) = {}
    /\ frame < MaxFrames
    /\ frame' = frame + 1
    /\ now' = now + FrameMs
    /\ enemy' = Enemy_physics(Begin(enemy), FrameMs)
    /\ UNCHANGED <<focus, calls, sceneRunning, player, spawner, others>>

\* the due delayed call at position i of the clock's list fires while the
\* player stands at offset off from the enemy
EnemyFireTimer(i, off) ==
    /\ i \in DueTimers(enemy)
    /\ UNCHANGED calls
    /\ LET e == [Begin(enemy) EXCEPT !.pending = RemoveAt(@, i)]
       IN EnemyStep(IF enemy.active
                    THEN Enemy_callback(e, enemy.pending[i].cb, off[2], now)
                    ELSE Enemy_callbackDestroyed(e, enemy.pending[i].cb))

EnemyFire == \E i \in DOMAIN enemy.pending, off \in Offsets : EnemyFireTimer(i, off)

EnemyUpdate ==
    \E off \in Offsets : EnemyCall(Enemy_update(Begin(enemy), off[1], off[2], now))

EnemyTakeDamage(damage, roll) == EnemyCall(Enemy_takeDamage(Begin(enemy), damage, roll, now))

EnemyStartBlocking == EnemyCall(Enemy_startBlocking(Begin(enemy), now))

NextEnemy ==
    \/ EnemyTick
    \/ EnemyFire
    \/ EnemyUpdate
    \/ \E damage \in EnemyDamageAmounts, roll \in BOOLEAN : EnemyTakeDamage(damage, roll)
    \/ EnemyStartBlocking

SpecEnemy == InitEnemy /\ [][NextEnemy]_vars

\* Cooldown specification: the Enemy observed every few frames, so that the
\* attack cooldown ends within MaxFrames
CooldownFrameMs == 5 * FrameMs

EnemyLongTick ==
    /\ focus = "enemy"
    /\ enemy.active
    /\ DueTimers(enemy) = {}
    /\ frame < MaxFrames
    /\ frame' = frame + 1
    /\ now' = now + CooldownFrameMs
    /\ enemy' = Enemy_physics(Begin(enemy), CooldownFrameMs)
    /\ UNCHANGED <<focus, calls, sceneRunning, player, spawner, others>>

NextCooldown ==
    \/ EnemyLongTick
    \/ EnemyFire
    \/ EnemyUpdate
    \/ \E damage \in {40} : EnemyTakeDamage(damage, FALSE)

SpecCooldown == InitEnemy /\ [][NextCooldown]_vars

\* Strike specification: the Enemy with the player close by, and the hit
\* test Game makes on each attack intent

\* player position minus enemy position, all within the attack envelope
\* but the last
StrikeOffsets == {<<50, 0>>, <<-60, -10>>, <<0, 20>>, <<-5, 28>>, <<70, 28>>, <<30, 40>>}

\* the data of the 'attack' event, relative to the enemy's position
Enemy_attackData(e) ==
    [x |-> IF e.flipX THEN 0 - Enemy_attackRange ELSE Enemy_attackRange,
     y |-> 0, damage |-> e.attackDamage, range |-> Enemy_attackRange]

\* handleEnemyAttack(): the test distance <= attackData.range, on the
\* squares; (playerX, playerY) is relative to the enemy as well
Game_handleEnemyAttack(attackData, playerX, playerY) ==
    (playerX - attackData.x) * (playerX - attackData.x)
        + (playerY - attackData.y) * (playerY - attackData.y)
    <= attackData.range * attackData.range

StrikeFireTimer(i, off) ==
    /\ enemy.active
    /\ i \in DueTimers(enemy)
    /\ UNCHANGED calls
    /\ EnemyStep(Enemy_callback([Begin(enemy) EXCEPT !.pending = RemoveAt(@, i)],
                                enemy.pending[i].cb, off[2], now))

StrikeFire == \E i \in DOMAIN enemy.pending, off \in StrikeOffsets : StrikeFireTimer(i, off)

StrikeUpdate ==
    \E off \in StrikeOffsets : EnemyCall(Enemy_update(Begin(enemy), off[1], off[2], now))

NextStrike ==
    \/ EnemyLongTick
    \/ StrikeFire
    \/ StrikeUpdate

SpecStrike == InitEnemy /\ [][NextStrike]_vars

\* both actors, each under test on its own
SpecActors == (InitPlayer \/ InitEnemy) /\ [][NextPlayer \/ NextEnemy]_vars

----------------------------------------------------------------------------
(* Timer specification: either actor under a few calls, after which the
   scene clock keeps running until every delayed call has fired *)

MaxTimerCalls == 2

\* due time of the delayed call that comes due first
NextDue(a) ==
    CHOOSE d \in {a.pending[i].due : i \in DOMAIN a.pending} :
        \A i \in DOMAIN a.pending : d <= a.pending[i].due

\* the clock runs on after the last observed frame, to the next due time
PlayerClock ==
    /\ focus = "player"
    /\ sceneRunning
    /\ frame >= MaxFrames
    /\ player.pending # <<>>
    /\ DueTimers(player) = {}
    /\ now' = NextDue(player)
    /\ player' = Begin(player)
    /\ UNCHANGED <<focus, frame, calls, sceneRunning, enemy, spawner, others>>

EnemyClock ==
    /\ focus = "enemy"
    /\ frame >= MaxFrames
    /\ enemy.pending # <<>>
    /\ DueTimers(enemy) = {}
    /\ now' = NextDue(enemy)
    /\ enemy' = Enemy_physics(Begin(enemy), NextDue(enemy) - now)
    /\ UNCHANGED <<focus, frame, calls, sceneRunning, player, spawner, others>>

\* the scene clock: frames, due delayed calls, and the run-on
ClockSteps ==
    \/ PlayerTick
    \/ PlayerFire
    \/ PlayerClock
    \/ EnemyTick
    \/ EnemyFire
    \/ EnemyClock

NextTimers ==
    \/ ClockSteps
    \/ (calls < MaxTimerCalls /\ NextPlayer)
    \/ (calls < MaxTimerCalls /\ NextEnemy)

\* the scene clock never stops while it can step
SpecTimers ==
    /\ InitPlayer \/ InitEnemy
    /\ [][NextTimers]_vars
    /\ WF_vars(ClockSteps)

----------------------------------------------------------------------------
(* Spawner specification: spawn points, live list and the death listener *)

\* items the player holds when the level starts: none, all slots but one, all
InventoryFills == {0, HOTBAR_SLOTS - 1, HOTBAR_SLOTS}

InitSpawner ==
    /\ focus = "spawner"
    /\ now = StartTime
    /\ frame = 0
    /\ calls = 0
    /\ sceneRunning = TRUE
    /\ player = Player_new
    /\ enemy = Enemy_new
    /\ \E n \in InventoryFills : spawner = [Spawner_new EXCEPT !.slots = Inventory_filled(n)]
    /\ ranged = Ranged_none
    /\ projectile = Projectile_none
    /\ game = Game_none

SpawnerCall(sp) ==
    /\ focus = "spawner"
    /\ calls < MaxSpawnerCalls
    /\ calls' = calls + 1
    /\ spawner' = sp
    /\ UNCHANGED <<focus, now, frame, sceneRunning, enemy, others>>

\* EnemySpawner.update()
SpawnerUpdate ==
    /\ SpawnerCall(Spawner_update(spawner))
    /\ UNCHANGED player

\* the player walks: this.player.x changes
SpawnerPlayerMoves ==
    /\ \E x \in PlayerXs \ {spawner.playerX} : SpawnerCall([spawner EXCEPT !.playerX = x])
    /\ UNCHANGED player

\* the 'death' listener of a spawned enemy
SpawnerEnemyDeath ==
    \E i \in DOMAIN spawner.enemies, dropRoll \in BOOLEAN :
        /\ SpawnerCall(Spawner_handleEnemyItemDrop(
                           Spawner_removeEnemy(spawner, spawner.enemies[i].id), dropRoll))
        /\ player' = Player_gainExperience(Begin(player), BASIC_ENEMY_XP)

\* EnemySpawner.reset()
SpawnerReset ==
    /\ SpawnerCall(Spawner_reset(spawner))
    /\ UNCHANGED player

NextSpawner ==
    \/ SpawnerUpdate
    \/ SpawnerPlayerMoves
    \/ SpawnerEnemyDeath
    \/ SpawnerReset

SpecSpawner == InitSpawner /\ [][NextSpawner]_vars

----------------------------------------------------------------------------
(* Spawned-enemy specification: the first enemy of the live list, with its
   timers, under the calls Game makes to listed enemies *)

\* getExperienceReward() of the spawned Enemy class:
\* floor(BASE_XP * (1 + (level - 1) * 0.3))
Enemy_getExperienceReward(level) ==
    (BASIC_ENEMY_XP * (10 + (level - 1) * 3)) \div 10

\* calculateEnemyLevel(): all enemies are level 1
Spawner_calculateEnemyLevel == 1

\* the enemy created first is on the live list
Spawned_inList(sp) == \E j \in DOMAIN sp.enemies : sp.enemies[j].id = 1

\* the list entry follows the enemy's active flag
Spawned_sync(sp, e) ==
    [sp EXCEPT !.enemies = [j \in DOMAIN @ |->
                               IF @[j].id = 1 THEN [@[j] EXCEPT !.active = e.active] ELSE @[j]]]

\* the 'death' listener installed by spawnEnemyAt(): removeEnemy, reward, drop
Spawner_onEnemyDeath(sp, dropRoll) ==
    Spawner_handleEnemyItemDrop(Spawner_removeEnemy(sp, 1), dropRoll)

\* the player walked to x = 900 and update() spawned at the two points at 1024
InitSpawned ==
    /\ focus = "spawned"
    /\ now = StartTime
    /\ frame = 0
    /\ calls = 0
    /\ sceneRunning = TRUE
    /\ player = Player_new
    /\ enemy = Enemy_new
    /\ spawner = Spawner_update([Spawner_new EXCEPT !.playerX = 900])
    /\ ranged = Ranged_none
    /\ projectile = Projectile_none
    /\ game = Game_none

\* a handler of the spawned enemy ran; a 'death' event runs the listener
SpawnedStep(e) ==
    /\ focus = "spawned"
    /\ enemy' = e
    /\ IF Emitted(e, "death")
       THEN /\ \E dropRoll \in BOOLEAN :
                  spawner' = Spawner_onEnemyDeath(Spawned_sync(spawner, e), dropRoll)
            /\ player' = Player_gainExperience(
                             Begin(player), Enemy_getExperienceReward(Spawner_calculateEnemyLevel))
       ELSE /\ spawner' = Spawned_sync(spawner, e)
            /\ UNCHANGED player
    /\ UNCHANGED <<focus, now, frame, sceneRunning, others>>

\* Game.update and Game.handlePlayerAttack address the enemies returned by
\* getActiveEnemies(): on the live list and active
SpawnedCall(e) ==
    /\ Spawned_inList(spawner)
    /\ enemy.active
    /\ DueTimers(enemy) = {}
    /\ calls < MaxEnemyCalls
    /\ calls' = calls + 1
    /\ SpawnedStep(e)

\* one frame: the clock advances, the body moves, EnemySpawner.update() runs
SpawnedTick ==
    /\ focus = "spawned"
    /\ enemy.active
    /\ DueTimers(enemy) = {}
    /\ frame < MaxFrames
    /\ frame' = frame + 1
    /\ now' = now + FrameMs
    /\ enemy' = Enemy_physics(Begin(enemy), FrameMs)
    /\ spawner' = Spawner_update(spawner)
    /\ UNCHANGED <<focus, calls, sceneRunning, player, others>>

SpawnedFire ==
    /\ enemy.active
    /\ UNCHANGED calls
    /\ \E i \in DueTimers(enemy), off \in Offsets :
          SpawnedStep(Enemy_callback([Begin(enemy) EXCEPT !.pending = RemoveAt(@, i)],
                                     enemy.pending[i].cb, off[2], now))

SpawnedUpdate ==
    \E off \in Offsets : SpawnedCall(Enemy_update(Begin(enemy), off[1], off[2], now))

\* handlePlayerAttack(): enemy.getState() !== 'dead', then takeDamage
SpawnedTakeDamage(damage, roll) ==
    /\ enemy.currentState # "dead"
    /\ SpawnedCall(Enemy_takeDamage(Begin(enemy), damage, roll, now))

NextSpawned ==
    \/ SpawnedTick
    \/ SpawnedFire
    \/ SpawnedUpdate
    \/ \E damage \in EnemyDamageAmounts, roll \in BOOLEAN : SpawnedTakeDamage(damage, roll)

SpecSpawned == InitSpawned /\ [][NextSpawned]_vars

----------------------------------------------------------------------------
(* Projectile (src/unnamed/part_004) and its specification *)

PROJECTILE_FAILSAFE_MS == 5000

\* a frame of the projectile specification spans several basic frames, so that
\* the failsafe timer comes due within MaxFrames
ProjectileFrameMs == 5 * FrameMs

\* ProjectileConfig values presented: start position, velocity in px/s, range
ProjectileConfigs ==
    {[x |-> c[1], y |-> c[2], velocityX |-> c[3], velocityY |-> c[4], range |-> c[5]] :
        c \in {<<1500, 500, 200, 0, 400>>, <<1500, 500, 0, 0, 400>>,
               <<100, 500, -200, 0, 400>>, <<1500, 700, 120, 160, 400>>,
               <<1500, 500, 40, 0, 400>>, <<2900, 400, 160, -120, 200>>}}

\* constructor: fields stored, velocity set, failsafe timer scheduled
Projectile_new(config, t) ==
    Schedule([x |-> config.x, y |-> config.y, startX |-> config.x, startY |-> config.y,
              velocityX |-> config.velocityX, velocityY |-> config.velocityY,
              range |-> config.range, active |-> TRUE, hasHitTarget |-> FALSE,
              pending |-> <<>>,
              \* history: 'hit' events emitted, hitTarget calls, destroy() calls that
              \* took effect, time of the first hit
              hits |-> 0, hitCalls |-> 0, destroys |-> 0, hitAt |-> -1],
             "failsafe", PROJECTILE_FAILSAFE_MS, t)

\* destroy(): a destroyed game object has left the scene; a second call is a no-op
Projectile_destroy(pr) ==
    IF pr.active THEN [pr EXCEPT !.active = FALSE, !.destroys = @ + 1] ELSE pr

\* the arcade body moves an active projectile by velocity * delta
Projectile_physics(pr, ms) ==
    IF pr.active
    THEN [pr EXCEPT !.x = @ + Quot(pr.velocityX * ms, 1000),
                    !.y = @ + Quot(pr.velocityY * ms, 1000)]
    ELSE pr

\* preUpdate(): range check, then world-bounds check
Projectile_preUpdate(pr) ==
    IF ~pr.active \/ pr.hasHitTarget THEN pr
    ELSE IF (pr.x - pr.startX) * (pr.x - pr.startX) + (pr.y - pr.startY) * (pr.y - pr.startY)
               >= pr.range * pr.range
         THEN Projectile_destroy(pr)
    ELSE IF \/ pr.x < 0 \/ pr.x > WORLD_WIDTH
            \/ pr.y < PHYSICS_START_Y \/ pr.y > PHYSICS_START_Y + PHYSICS_HEIGHT
         THEN Projectile_destroy(pr)
    ELSE pr

\* variant of hitTarget() without the hasHitTarget guard; C23 fails on it
Projectile_hitTarget_noLatch(pr, t) ==
    Projectile_destroy([pr EXCEPT !.hitCalls = @ + 1, !.hasHitTarget = TRUE,
                                  !.hits = @ + 1])

\* hitTarget(): latch, emit 'hit', impact effect, destroy
Projectile_hitTarget(pr, t) ==
    IF pr.hasHitTarget THEN [pr EXCEPT !.hitCalls = @ + 1]
    ELSE Projectile_destroy([pr EXCEPT !.hitCalls = @ + 1, !.hasHitTarget = TRUE,
                                       !.hits = @ + 1, !.hitAt = t])

\* the failsafe callback: if (this.active) this.destroy()
Projectile_callback(pr, cb) ==
    IF cb = "failsafe" /\ pr.active THEN Projectile_destroy(pr) ELSE pr

InitProjectile ==
    /\ focus = "projectile"
    /\ now = StartTime
    /\ frame = 0
    /\ calls = 0
    /\ sceneRunning = TRUE
    /\ player = Player_new
    /\ enemy = Enemy_new
    /\ spawner = Spawner_none
    /\ ranged = Ranged_none
    /\ \E config \in ProjectileConfigs : projectile = Projectile_new(config, StartTime)
    /\ game = Game_none

\* one frame: the clock advances, the body moves, preUpdate runs
ProjectileTick ==
    /\ focus = "projectile"
    /\ DueTimers(projectile) = {}
    /\ frame < MaxFrames
    /\ frame' = frame + 1
    /\ now' = now + ProjectileFrameMs
    /\ projectile' = Projectile_preUpdate(Projectile_physics(projectile, ProjectileFrameMs))
    /\ UNCHANGED <<focus, calls, sceneRunning, player, enemy, spawner, ranged, game>>

\* a due delayed call fires
ProjectileFire ==
    /\ focus = "projectile"
    /\ \E i \in DueTimers(projectile) :
           projectile' = Projectile_callback([projectile EXCEPT !.pending = RemoveAt(@, i)],
                                             projectile.pending[i].cb)
    /\ UNCHANGED <<focus, now, frame, calls, sceneRunning, player, enemy, spawner, ranged, game>>

\* a collision handler calls hitTarget(target)
ProjectileHitTarget ==
    /\ focus = "projectile"
    /\ calls < MaxProjectileCalls
    /\ calls' = calls + 1
    /\ projectile' = Projectile_hitTarget(projectile, now)
    /\ UNCHANGED <<focus, now, frame, sceneRunning, player, enemy, spawner, ranged, game>>

NextProjectile ==
    \/ ProjectileTick
    \/ ProjectileFire
    \/ ProjectileHitTarget

SpecProjectile == InitProjectile /\ [][NextProjectile]_vars

----------------------------------------------------------------------------
(* RangedEnemy.fireProjectile (src/unnamed/part_003) and its specification *)

RANGED_PROJECTILE_SPEED == 200
\* prediction = 0.3, as a fraction
RANGED_PREDICTION_NUM == 3
RANGED_PREDICTION_DEN == 10
RANGED_SPAWN_OFFSET == 30

\* player position minus enemy position; the distances are whole multiples of 10
RangedOffsets == {<<300, 0>>, <<-300, 0>>, <<0, 200>>, <<0, -100>>, <<180, 240>>,
                  <<-120, -160>>, <<-240, 70>>, <<0, 0>>}

\* components of the player's body velocity
RangedPlayerVelocities == {-200, 0, 200}

\* Phaser.Math.Distance.Between
Distance(x1, y1, x2, y2) == Isqrt((x2 - x1) * (x2 - x1) + (y2 - y1) * (y2 - y1))

\* variant of the aim point with a lead that does not depend on the player's
\* velocity; C24 fails on it
RangedEnemy_aimPoint_fixedLead(r, targetX, targetY) ==
    [x |-> targetX + RANGED_SPAWN_OFFSET, y |-> targetY]

\* adjustedTarget: target + playerVelocity * timeToTarget * prediction, with
\* timeToTarget = distance / projectileSpeed; the target itself without a body
RangedEnemy_aimPoint(r, targetX, targetY) ==
    IF r.hasBody
    THEN LET d == Distance(r.x, r.y, targetX, targetY)
         IN [x |-> targetX + Quot(r.playerVelocityX * d * RANGED_PREDICTION_NUM,
                                  RANGED_PROJECTILE_SPEED * RANGED_PREDICTION_DEN),
             y |-> targetY + Quot(r.playerVelocityY * d * RANGED_PREDICTION_NUM,
                                  RANGED_PROJECTILE_SPEED * RANGED_PREDICTION_DEN)]
    ELSE [x |-> targetX, y |-> targetY]

\* fireProjectile(): direction to the aim point, normalised and scaled by
\* projectileSpeed; nothing is created when the distance is 0
RangedEnemy_fireProjectile(r, targetX, targetY) ==
    LET aim == RangedEnemy_aimPoint(r, targetX, targetY)
        dx == aim.x - r.x
        dy == aim.y - r.y
        distance == Isqrt(dx * dx + dy * dy)
    IN [r EXCEPT !.fired = TRUE,
                 !.aimX = aim.x, !.aimY = aim.y,
                 !.shot = IF distance > 0
                          THEN [exists |-> TRUE,
                                velocityX |-> Quot(dx * RANGED_PROJECTILE_SPEED, distance),
                                velocityY |-> Quot(dy * RANGED_PROJECTILE_SPEED, distance),
                                x |-> r.x + Quot(dx * RANGED_SPAWN_OFFSET, distance),
                                y |-> r.y + Quot(dy * RANGED_SPAWN_OFFSET, distance)]
                          ELSE @]

RangedEnemy_new(x, y) == [
    fired |-> FALSE, x |-> x, y |-> y,
    \* the scene's player as fireProjectile reads it
    playerX |-> x, playerY |-> y, playerVelocityX |-> 0, playerVelocityY |-> 0,
    hasBody |-> TRUE,
    aimX |-> 0, aimY |-> 0,
    shot |-> [exists |-> FALSE, velocityX |-> 0, velocityY |-> 0, x |-> 0, y |-> 0]]

InitRanged ==
    /\ focus = "ranged"
    /\ now = StartTime
    /\ frame = 0
    /\ calls = 0
    /\ sceneRunning = TRUE
    /\ player = Player_new
    /\ enemy = Enemy_new
    /\ spawner = Spawner_none
    /\ \E off \in RangedOffsets, vx \in RangedPlayerVelocities,
          vy \in RangedPlayerVelocities, hasBody \in BOOLEAN :
          ranged = [RangedEnemy_new(1500, 500) EXCEPT
                        !.playerX = 1500 + off[1], !.playerY = 500 + off[2],
                        !.playerVelocityX = vx, !.playerVelocityY = vy,
                        !.hasBody = hasBody]
    /\ projectile = Projectile_none
    /\ game = Game_none

\* attack(): this.fireProjectile(player.x, player.y)
RangedFire ==
    /\ focus = "ranged"
    /\ ~ranged.fired
    /\ ranged' = RangedEnemy_fireProjectile(ranged, ranged.playerX, ranged.playerY)
    /\ UNCHANGED <<focus, now, frame, calls, sceneRunning, player, enemy, spawner,
                   projectile, game>>

NextRanged == RangedFire

SpecRanged == InitRanged /\ [][NextRanged]_vars

----------------------------------------------------------------------------
(* RangedEnemy decision policy (src/unnamed/part_003) and its specification:
   the enemy record is the ranged enemy, ranged keeps the last update() seen *)

RANGED_ATTACK_RANGE == 300
RANGED_MIN_ATTACK_DISTANCE == 120
RANGED_DETECTION_EXTRA == 100
\* the retreat factor 0.8, as a fraction
RANGED_RETREAT_NUM == 4
RANGED_RETREAT_DEN == 5

MaxRangedCalls == 3

\* a frame of this specification spans several basic frames, so that the
\* action cooldown ends more than once within MaxFrames
RangedFrameMs == 5 * FrameMs

\* player position minus enemy position
RangedAIOffsets == {<<0, 0>>, <<60, 0>>, <<-60, 80>>, <<120, 0>>, <<-200, 20>>,
                    <<300, 0>>, <<180, 240>>, <<100, 100>>, <<350, 0>>, <<500, 0>>}

\* constructor: maxHealth = floor(maxHealth * 0.8)
RangedEnemy_actor ==
    [Enemy_new EXCEPT !.maxHealth = (Enemy_new.maxHealth * 8) \div 10,
                      !.currentHealth = (Enemy_new.maxHealth * 8) \div 10]

RangedEnemy_moveAwayFromPlayer(e, dx, dy) ==
    LET distance == Isqrt(dx * dx + dy * dy)
    IN IF distance > 0
       THEN Enemy_setVelocity(e,
                Quot((0 - dx) * e.speed * RANGED_RETREAT_NUM, distance * RANGED_RETREAT_DEN),
                Quot((0 - dy) * e.speed * RANGED_RETREAT_NUM, distance * RANGED_RETREAT_DEN))
       ELSE e

\* updateRangedAI() passes its two early returns
RangedEnemy_decides(e, t) ==
    /\ e.currentState \notin {"attacking", "hurt", "stunned", "blocking"}
    /\ ~e.isWindingUp
    /\ t - e.lastActionTime >= ENEMY_ACTION_COOLDOWN

\* variant of updateRangedAI() without the stand-off branch; C31 fails on it
RangedEnemy_updateRangedAI_noStandOff(e, dx, dy, t) ==
    IF ~RangedEnemy_decides(e, t) THEN e
    ELSE LET d2 == dx * dx + dy * dy
             e1 == IF d2 <= RANGED_ATTACK_RANGE * RANGED_ATTACK_RANGE
                   THEN IF Abs(dx) <= RANGED_ATTACK_RANGE
                           /\ Abs(dy) <= Enemy_verticalAttackTolerance
                        THEN IF Enemy_canAttack(e, t)
                             THEN [Enemy_startAttackWindup(e, t) EXCEPT !.lastActionTime = t]
                             ELSE e
                        ELSE Enemy_moveTowardsPlayer(e, dx, dy)
                   ELSE Enemy_setVelocity(e, 0, 0)
         IN Enemy_updateState(e1, t)

\* updateRangedAI(), with updateMovementState() at its end; the distance
\* comparisons are made on the squares
RangedEnemy_updateRangedAI(e, dx, dy, t) ==
    IF ~RangedEnemy_decides(e, t) THEN e
    ELSE LET d2 == dx * dx + dy * dy
             detectionRange == RANGED_ATTACK_RANGE + RANGED_DETECTION_EXTRA
             e1 == IF d2 <= RANGED_ATTACK_RANGE * RANGED_ATTACK_RANGE
                   THEN IF d2 < RANGED_MIN_ATTACK_DISTANCE * RANGED_MIN_ATTACK_DISTANCE
                        THEN [RangedEnemy_moveAwayFromPlayer(e, dx, dy)
                                  EXCEPT !.lastActionTime = t]
                        ELSE IF Abs(dx) <= RANGED_ATTACK_RANGE
                                /\ Abs(dy) <= Enemy_verticalAttackTolerance
                             THEN IF Enemy_canAttack(e, t)
                                  THEN [Enemy_startAttackWindup(e, t)
                                            EXCEPT !.lastActionTime = t]
                                  ELSE e
                             ELSE Enemy_moveTowardsPlayer(e, dx, dy)
                   ELSE IF d2 <= detectionRange * detectionRange
                        THEN Enemy_moveTowardsPlayer(e, dx, dy)
                        ELSE Enemy_setVelocity(e, 0, 0)
         IN Enemy_updateState(e1, t)

\* update(playerX, playerY) of RangedEnemy
RangedEnemy_update(e, dx, dy, t) ==
    IF e.currentState = "dead" THEN e
    ELSE RangedEnemy_updateRangedAI([e EXCEPT !.flipX = (dx < 0)], dx, dy, t)

\* attack() of RangedEnemy: no alignment re-check, lastActionTime is set too
RangedEnemy_attack(e, t) ==
    IF ~Enemy_canAttack(e, t) /\ ~e.isWindingUp THEN e
    ELSE Emit(Enemy_setEnemyState([e EXCEPT !.lastAttackTime = t, !.lastActionTime = t],
                                  "attacking", t), "attack")

\* the delayed calls of Enemy, whose windup callback reaches the override
RangedEnemy_callback(e, cb, t) ==
    IF cb = "windup" THEN RangedEnemy_attack([e EXCEPT !.isWindingUp = FALSE], t)
    ELSE Enemy_callback(e, cb, 0, t)

\* what ranged keeps of an update(): the offset, whether the policy decided,
\* the flag before and the enemy after
RangedAI_seen(dx, dy, before, after, t) ==
    [fired |-> FALSE, updates |-> 1, dx |-> dx, dy |-> dy,
     decided |-> before.currentState # "dead" /\ RangedEnemy_decides(before, t),
     windup |-> after.isWindingUp /\ ~before.isWindingUp,
     velocity |-> after.velocity]

InitRangedAI ==
    /\ focus = "rangedAI"
    /\ now = StartTime
    /\ frame = 0
    /\ calls = 0
    /\ sceneRunning = TRUE
    /\ player = Player_new
    /\ enemy = RangedEnemy_actor
    /\ spawner = Spawner_none
    /\ ranged = [fired |-> FALSE, updates |-> 0, dx |-> 0, dy |-> 0, decided |-> FALSE,
                 windup |-> FALSE, velocity |-> [x |-> 0, y |-> 0]]
    /\ projectile = Projectile_none
    /\ game = Game_none

RangedAIUpdate ==
    /\ focus = "rangedAI"
    /\ enemy.active
    /\ DueTimers(enemy) = {}
    /\ calls < MaxRangedCalls
    /\ calls' = calls + 1
    /\ \E off \in RangedAIOffsets :
          LET e == RangedEnemy_update(Begin(enemy), off[1], off[2], now)
          IN /\ enemy' = e
             /\ ranged' = RangedAI_seen(off[1], off[2], enemy, e, now)
    /\ UNCHANGED <<focus, now, frame, sceneRunning, player, spawner, projectile, game>>

RangedAITakeDamage ==
    /\ focus = "rangedAI"
    /\ enemy.active
    /\ DueTimers(enemy) = {}
    /\ calls < MaxRangedCalls
    /\ calls' = calls + 1
    /\ \E damage \in {40} : enemy' = Enemy_takeDamage(Begin(enemy), damage, FALSE, now)
    /\ UNCHANGED <<focus, now, frame, sceneRunning, player, spawner, others>>

RangedAITick ==
    /\ focus = "rangedAI"
    /\ enemy.active
    /\ DueTimers(enemy) = {}
    /\ frame < MaxFrames
    /\ frame' = frame + 1
    /\ now' = now + RangedFrameMs
    /\ enemy' = Enemy_physics(Begin(enemy), RangedFrameMs)
    /\ UNCHANGED <<focus, calls, sceneRunning, player, spawner, others>>

RangedAIFire ==
    /\ focus = "rangedAI"
    /\ enemy.active
    /\ \E i \in DueTimers(enemy) :
          enemy' = RangedEnemy_callback([Begin(enemy) EXCEPT !.pending = RemoveAt(@, i)],
                                        enemy.pending[i].cb, now)
    /\ UNCHANGED <<focus, now, frame, calls, sceneRunning, player, spawner, others>>

NextRangedAI ==
    \/ RangedAIUpdate
    \/ RangedAITakeDamage
    \/ RangedAITick
    \/ RangedAIFire

SpecRangedAI == InitRangedAI /\ [][NextRangedAI]_vars

----------------------------------------------------------------------------
(* Potion specification: the 'inventory:use' listener of Game with the
   revert timers of the timed buffs, and experience grants in between *)

\* a frame of the potion specification spans several basic frames, so that
\* a buff of 10 s ends within MaxBuffFrames
BuffFrameMs == 40 * FrameMs

MaxBuffFrames == 6
MaxBuffCalls == 5

\* the potions the Player holds
BuffInventory ==
    <<"potion_attack_tonic", "potion_speed_draught", "potion_attack_tonic",
      "potion_health_small", "item_amulet_strength", "null">>

InitBuffs ==
    /\ focus = "buffs"
    /\ now = StartTime
    /\ frame = 0
    /\ calls = 0
    /\ sceneRunning = TRUE
    /\ \E health \in {60, 100} : player = [Player_new EXCEPT !.currentHealth = health]
    /\ enemy = Enemy_new
    /\ spawner = Spawner_none
    /\ ranged = Ranged_none
    /\ projectile = Projectile_none
    /\ game = [Game_none EXCEPT !.slots = BuffInventory,
                                !.baseAttackDamage = Player_new.attackDamage,
                                !.baseSpeed = Player_new.speed]

BuffStep(r) ==
    /\ focus = "buffs"
    /\ game' = r.g
    /\ player' = r.p
    /\ UNCHANGED <<focus, now, frame, sceneRunning, enemy, spawner, ranged, projectile>>

\* a hotbar key is pressed: scene.events.emit('inventory:use', slotIndex)
BuffUse ==
    /\ calls < MaxBuffCalls
    /\ calls' = calls + 1
    /\ \E slotIndex \in 0..(HOTBAR_SLOTS - 1) :
           BuffStep(Game_onInventoryUse(game, Begin(player), 2 * slotIndex, now))

\* an enemy dies in between: the Player gains experience and may level up
BuffGainExperience ==
    /\ calls < MaxBuffCalls
    /\ player.totalExperience < MaxCombatXP
    /\ calls' = calls + 1
    /\ LET p == Player_gainExperience(Begin(player), MaxCombatXP)
       IN BuffStep([g |-> [game EXCEPT
                               !.baseAttackDamage = @ + (p.attackDamage - player.attackDamage),
                               !.baseSpeed = @ + (p.speed - player.speed)],
                    p |-> p])

BuffTick ==
    /\ focus = "buffs"
    /\ DueTimers(game) = {}
    /\ frame < MaxBuffFrames
    /\ frame' = frame + 1
    /\ now' = now + BuffFrameMs
    /\ UNCHANGED <<focus, calls, sceneRunning, player, enemy, spawner, others>>

\* a due revert fires
BuffFire ==
    /\ UNCHANGED calls
    /\ \E i \in DueTimers(game) :
           BuffStep(Game_revertBuff([game EXCEPT !.pending = RemoveAt(@, i)],
                                    Begin(player), game.pending[i]))

NextBuffs ==
    \/ BuffUse
    \/ BuffGainExperience
    \/ BuffTick
    \/ BuffFire

SpecBuffs == InitBuffs /\ [][NextBuffs]_vars

\* Buffed-leveling specification: speed draughts and experience grants large
\* enough for several level-ups, with the revert timers

\* the potions the Player holds
DraughtInventory ==
    <<"potion_speed_draught", "potion_speed_draught", "null", "null", "null", "null">>

DraughtXPGrants == {100, 900}

InitDraughts ==
    /\ focus = "buffs"
    /\ now = StartTime
    /\ frame = 0
    /\ calls = 0
    /\ sceneRunning = TRUE
    /\ player = Player_new
    /\ enemy = Enemy_new
    /\ spawner = Spawner_none
    /\ ranged = Ranged_none
    /\ projectile = Projectile_none
    /\ game = [Game_none EXCEPT !.slots = DraughtInventory,
                                !.baseAttackDamage = Player_new.attackDamage,
                                !.baseSpeed = Player_new.speed]

\* a hotbar key of one of the first two slots is pressed
DraughtUse ==
    /\ calls < MaxBuffCalls
    /\ calls' = calls + 1
    /\ \E slotIndex \in 0..1 :
           BuffStep(Game_onInventoryUse(game, Begin(player), 2 * slotIndex, now))

\* enemies die in between: the Player gains experience and levels up
DraughtGainExperience ==
    /\ calls < MaxBuffCalls
    /\ calls' = calls + 1
    /\ \E amount \in DraughtXPGrants :
          /\ player.totalExperience + amount <= MaxTotalXP
          /\ BuffStep([g |-> game, p |-> Player_gainExperience(Begin(player), amount)])

NextDraughts ==
    \/ DraughtUse
    \/ DraughtGainExperience
    \/ BuffTick
    \/ BuffFire

SpecDraughts == InitDraughts /\ [][NextDraughts]_vars

----------------------------------------------------------------------------
(* Inventory specification: the public operations of Inventory under
   arbitrary arguments, with the 'add' and 'remove' listeners of Game *)

\* item ids passed to add(): two registered ids, and two strings that are not
\* keys of DEFINITIONS
AddInputs == {"potion_health_small", "item_ring_vitality", "no_such_item", "constructor"}

\* slot indices passed, in halves: -1, 0, 1.5, 5 and 6
IndexInputs == {-2, 0, 3, 10, 12}

InitInventory ==
    /\ focus = "inventory"
    /\ now = StartTime
    /\ frame = 0
    /\ calls = 0
    /\ sceneRunning = TRUE
    /\ player = Player_new
    /\ enemy = Enemy_new
    /\ spawner = Spawner_none
    /\ ranged = Ranged_none
    /\ projectile = Projectile_none
    /\ game = Game_none

\* the inventory changed to slots and the call returned result
InventoryStep(slots, result) ==
    /\ focus = "inventory"
    /\ game' = [game EXCEPT !.slots = slots, !.result = result]
    /\ UNCHANGED <<focus, now, frame, calls, sceneRunning, enemy, spawner, ranged, projectile>>

\* add(itemId); on success the 'add' listener applies a carried ring
InventoryAdd(itemId) ==
    LET r == Inventory_addResult(game.slots, itemId)
    IN /\ InventoryStep(Inventory_add(game.slots, itemId),
                        [op |-> "add", success |-> r.success, value |-> r.reason])
       /\ IF r.success /\ itemId = "item_ring_vitality"
          THEN \E tieUp \in BOOLEAN :
                  player' = Game_applyPermanentItem([Begin(player) EXCEPT !.rings = @ + 1], tieUp)
          ELSE UNCHANGED player

\* removeAt(slotIndex); the 'remove' listener takes off a carried ring
InventoryRemoveAt(h) ==
    LET existing == Inventory_getAt(game.slots, h)
    IN /\ InventoryStep(Inventory_removeAt(game.slots, h),
                        [op |-> "removeAt", success |-> Inventory_isValidIndex(game.slots, h),
                         value |-> existing])
       /\ IF existing = "item_ring_vitality"
          THEN \E tieUp \in BOOLEAN :
                  player' = Game_removePermanentItem([Begin(player) EXCEPT !.rings = @ - 1], tieUp)
          ELSE UNCHANGED player

\* getAt(slotIndex)
InventoryGetAt(h) ==
    /\ InventoryStep(game.slots,
                     [op |-> "getAt", success |-> Inventory_isValidIndex(game.slots, h),
                      value |-> Inventory_getAt(game.slots, h)])
    /\ UNCHANGED player

\* swap(a, b) returns nothing
InventorySwap(a, b) ==
    /\ InventoryStep(Inventory_swap(game.slots, a, b),
                     [op |-> "swap",
                      success |-> Inventory_swap(game.slots, a, b) # game.slots,
                      value |-> "undefined"])
    /\ UNCHANGED player

NextInventory ==
    \/ \E itemId \in AddInputs : InventoryAdd(itemId)
    \/ \E h \in IndexInputs : InventoryRemoveAt(h)
    \/ \E h \in IndexInputs : InventoryGetAt(h)
    \/ \E a \in IndexInputs, b \in IndexInputs : InventorySwap(a, b)

SpecInventory == InitInventory /\ [][NextInventory]_vars

----------------------------------------------------------------------------
(* Properties *)

LevelUps(p) == Cardinality({i \in DOMAIN p.emitted : p.emitted[i] = "levelUp"})

\* C1: after every gainExperience(n) with n >= 0, experience is below
\* experienceToNextLevel and level is not lower than before the call.
C1_LevelingSettles ==
    [][\A amount \in XPGrants :
          GainExperience(amount) =>
              /\ player'.experience < player'.experienceToNextLevel
              /\ player'.level >= player.level]_vars

\* a single grant that crossed two levels
C1_Witness ==
    /\ focus = "leveling"
    /\ LevelUps(player) >= 2
    /\ player.experience < player.experienceToNextLevel

\* the reference computation of C2: thresholds floor(100 * 1.5^(k-1)) are
\* subtracted from the total in order while they fit
RefThreshold(k) == (100 * 3 ^ (k - 1)) \div (2 ^ (k - 1))

RECURSIVE RefLeveling(_, _)
RefLeveling(xp, k) ==
    IF xp >= RefThreshold(k) THEN RefLeveling(xp - RefThreshold(k), k + 1)
    ELSE [level |-> k, experience |-> xp, experienceToNextLevel |-> RefThreshold(k)]

\* C2: after any sequence of grants to a fresh Player, totalExperience is
\* the sum of the grants and (level, experience, experienceToNextLevel) is
\* the reference computation on it; 100 XP gives level 2 with threshold 150
\* and a single grant of 250 XP gives level 3, experience 0, threshold 225.
C2_ReferenceLeveling ==
    [][\A amount \in XPGrants :
          GainExperience(amount) =>
              LET ref == RefLeveling(player'.totalExperience, 1)
              IN /\ player'.totalExperience = player.totalExperience + amount
                 /\ player'.level = ref.level
                 /\ player'.experience = ref.experience
                 /\ player'.experienceToNextLevel = ref.experienceToNextLevel
                 /\ (player'.totalExperience = 100 =>
                        player'.level = 2 /\ player'.experienceToNextLevel = 150)
                 /\ (player.totalExperience = 0 /\ amount = 250 =>
                        /\ player'.level = 3
                        /\ player'.experience = 0
                        /\ player'.totalExperience = 250
                        /\ player'.experienceToNextLevel = 225)]_vars

\* the single grant of 250 XP to the fresh Player
C2_Witness ==
    /\ focus = "leveling"
    /\ player.totalExperience = 250
    /\ LevelUps(player) = 2
    /\ player.level = 3

\* C3: once an actor has died, every further takeDamage call leaves its
\* health at 0 and no second death event is emitted for it.
C3_NoSecondDeath ==
    [][/\ \A damage \in DamageAmounts :
             (player.died /\ PlayerTakeDamage(damage)) =>
                 (player'.currentHealth = 0 /\ ~Emitted(player', "death"))
       /\ \A damage \in EnemyDamageAmounts, roll \in BOOLEAN :
             (enemy.deaths >= 1 /\ EnemyTakeDamage(damage, roll)) =>
                 (enemy'.currentHealth = 0 /\ ~Emitted(enemy', "death"))
       /\ player'.deaths <= 1
       /\ enemy'.deaths <= 1]_vars

\* C4: in every reachable state of Player and Enemy,
\* 0 <= currentHealth <= maxHealth.
C4_HealthInRange ==
    /\ 0 <= player.currentHealth /\ player.currentHealth <= player.maxHealth
    /\ 0 <= enemy.currentHealth /\ enemy.currentHealth <= enemy.maxHealth

\* a living Player that carries a ring, has leveled up and is wounded
C4_Witness ==
    /\ focus = "player"
    /\ player.rings = 1
    /\ player.level = 2
    /\ player.currentState # "dead"
    /\ 0 < player.currentHealth /\ player.currentHealth < player.maxHealth

\* C5: once the Player's state is DEAD it never changes again.
C5_PlayerDeadIsTerminal ==
    [][player.currentState = "dead" => player'.currentState = "dead"]_vars

\* C6: a delayed callback of an Enemy that has died does not change the
\* enemy's state: the enemy stays DEAD until it is removed.
C6_EnemyCallbacksKeepDead ==
    [][(EnemyFire /\ enemy.currentState = "dead") => enemy'.currentState = "dead"]_vars

\* C7: for Player and Enemy, currentHealth = 0 exactly when the state is DEAD.
C7_ZeroHealthIffDead ==
    /\ (player.currentHealth = 0) <=> (player.currentState = "dead")
    /\ (enemy.currentHealth = 0) <=> (enemy.currentState = "dead")

\* C8: a takeDamage call that applies non-blocked, non-lethal damage opens
\* the invulnerability window, and every takeDamage call made while the
\* window is open changes neither health nor state and emits no damage
\* event: the window holds exactly one applied hit.
C8_InvulnerabilityIdempotent ==
    [][/\ \A damage \in DamageAmounts :
             PlayerTakeDamage(damage) =>
                 /\ player.isInvulnerable =>
                       /\ player'.currentHealth = player.currentHealth
                       /\ player'.currentState = player.currentState
                       /\ ~Emitted(player', "damage")
                 /\ (/\ ~player.isInvulnerable
                     /\ player.currentState \notin {"dead", "blocking"}
                     /\ player.currentHealth > damage) =>
                       /\ player'.isInvulnerable
                       /\ player'.currentHealth = player.currentHealth - damage
                       /\ Emitted(player', "damage")
       /\ \A damage \in EnemyDamageAmounts, roll \in BOOLEAN :
             EnemyTakeDamage(damage, roll) =>
                 /\ enemy.isInvulnerable =>
                       /\ enemy'.currentHealth = enemy.currentHealth
                       /\ enemy'.currentState = enemy.currentState
                       /\ ~Emitted(enemy', "damage")
                 /\ (/\ ~enemy.isInvulnerable
                     /\ enemy.currentState # "dead"
                     /\ ~(enemy.isBlocking /\ roll)
                     /\ enemy.currentHealth > damage) =>
                       /\ enemy'.isInvulnerable
                       /\ enemy'.currentHealth = enemy.currentHealth - damage
                       /\ Emitted(enemy', "damage")
       /\ player'.isInvulnerable => player'.windowHits = 1
       /\ enemy'.isInvulnerable => enemy'.windowHits = 1]_vars

\* a takeDamage call that was ignored inside the window of an earlier hit
C8_Witness ==
    /\ focus = "enemy"
    /\ enemy.isInvulnerable
    /\ enemy.windowHits = 1
    /\ enemy.currentHealth = enemy.maxHealth - 50
    /\ enemy.emitted = <<>>
    /\ calls >= 2
    /\ frame = 0

\* C9: an attack() call made less than attackCooldown after the last attack
\* intent neither emits an intent nor moves the Player to ATTACKING, so two
\* attack intents are at least attackCooldown apart.
C9_AttackCooldownGate ==
    [][/\ (Emitted(player', "attack") /\ player.intentAt >= 0) =>
              now' - player.intentAt >= Player_attackCooldown
       /\ Emitted(player', "attack") => player'.currentState = "attacking"
       /\ (player.intentAt >= 0 /\ now' - player.intentAt < Player_attackCooldown
              /\ player.currentState # "attacking") =>
              player'.currentState # "attacking"]_vars

\* an attack() call rejected by the cooldown alone
C9_Witness ==
    /\ focus = "player"
    /\ player.rejected
    /\ player.intentAt >= 0
    /\ now - player.intentAt < Player_attackCooldown
    /\ ~player.isAttacking
    /\ player.currentState \in {"idle", "walking"}

\* C10: a spawn point spawns at most one enemy between two reset() calls,
\* and once triggered it stays triggered until reset().
C10_SpawnPointLatch ==
    [][/\ \A i \in DOMAIN spawner.spawnPoints : spawner'.spawns[i] <= 1
       /\ ~SpawnerReset =>
             \A i \in DOMAIN spawner.spawnPoints :
                 spawner.spawnPoints[i].triggered =>
                     /\ spawner'.spawnPoints[i].triggered
                     /\ spawner'.spawns[i] = spawner.spawns[i]]_vars

\* the player is back within the trigger distance of a triggered point
\* whose enemy has died
C10_Witness ==
    /\ focus = "spawner"
    /\ \E i \in DOMAIN spawner.spawnPoints :
          /\ spawner.spawnPoints[i].triggered
          /\ spawner.spawns[i] = 1
          /\ Abs(spawner.playerX - spawner.spawnPoints[i].x) <= TRIGGER_DISTANCE
          /\ \A j \in DOMAIN spawner.enemies : spawner.enemies[j].point # i
          /\ Len(spawner.enemies) < spawner.maxEnemies
    /\ calls >= 4

\* C11: the spawner's live list never holds more than maxEnemies enemies,
\* also after a tick with several untriggered points in trigger distance.
C11_PopulationCap ==
    Len(spawner.enemies) <= spawner.maxEnemies

\* the live list is full while an untriggered point is in trigger distance
\* and an update() has just run
C11_Witness ==
    /\ focus = "spawner"
    /\ Len(spawner.enemies) = spawner.maxEnemies
    /\ \E i \in DOMAIN spawner.spawnPoints :
          /\ ~spawner.spawnPoints[i].triggered
          /\ Abs(spawner.playerX - spawner.spawnPoints[i].x) <= spawner.spawnPoints[i].triggerDistance
    /\ \E j \in DOMAIN spawner.spawnPoints :
          /\ spawner.spawnPoints[j].triggered
          /\ Abs(spawner.playerX - spawner.spawnPoints[j].x) <= spawner.spawnPoints[j].triggerDistance

\* C12 as stated: every takeDamage(d) on a BLOCKING Player subtracts
\* floor(d * 0.1) from health (floored at 0) and a survivor stays BLOCKING,
\* unstunned, with no invulnerability window started.
C12_BlockedDamageAlways ==
    [][\A damage \in DamageAmounts :
          (PlayerTakeDamage(damage) /\ player.currentState = "blocking") =>
              /\ player'.currentHealth = Max(0, player.currentHealth - (damage \div 10))
              /\ player'.currentHealth > 0 =>
                    /\ player'.currentState = "blocking"
                    /\ player'.isInvulnerable = player.isInvulnerable
                    /\ player'.pending = player.pending]_vars

\* C12 amended: the same for a BLOCKING Player that is not inside an
\* invulnerability window; inside a window the call changes nothing.
C12_BlockedDamage ==
    [][\A damage \in DamageAmounts :
          (PlayerTakeDamage(damage) /\ player.currentState = "blocking") =>
              IF player.isInvulnerable
              THEN player'.currentHealth = player.currentHealth
              ELSE /\ player'.currentHealth = Max(0, player.currentHealth - (damage \div 10))
                   /\ player'.currentHealth > 0 =>
                         /\ player'.currentState = "blocking"
                         /\ ~player'.isInvulnerable
                         /\ player'.pending = player.pending]_vars

\* a blocked hit has just been applied to a vulnerable BLOCKING Player
C12_Witness ==
    /\ focus = "player"
    /\ player.currentState = "blocking"
    /\ player.isBlocking
    /\ ~player.isInvulnerable
    /\ Emitted(player, "damage")
    /\ player.currentHealth \in {player.maxHealth - 5, player.maxHealth - 10}

\* C13: for a living, vulnerable Enemy in any state, a takeDamage(d) whose
\* block roll succeeds applies exactly floor(d * 0.3).
C13_BlockRollInAnyState ==
    [][\A damage \in EnemyDamageAmounts :
          (/\ EnemyTakeDamage(damage, TRUE)
           /\ ~enemy.isInvulnerable
           /\ enemy.currentState # "dead") =>
              enemy'.currentHealth = Max(0, enemy.currentHealth - ((damage * 3) \div 10))]_vars

\* C14: a non-lethal, unblocked takeDamage(d) on a living, vulnerable
\* Enemy lowers health by exactly d (80 - 40 = 40) and puts it in HURT with
\* the hurt-end callback due 400 ms later; that callback, firing on the
\* enemy that took no further lethal damage, sets the state to IDLE.
C14_HurtThenIdle ==
    [][/\ \A damage \in EnemyDamageAmounts, roll \in BOOLEAN :
             (/\ EnemyTakeDamage(damage, roll)
              /\ ~enemy.isInvulnerable
              /\ enemy.currentState # "dead"
              /\ ~(enemy.isBlocking /\ roll)
              /\ enemy.currentHealth > damage) =>
                 /\ enemy'.currentHealth = enemy.currentHealth - damage
                 /\ enemy'.currentState = "hurt"
                 /\ (enemy.currentHealth = 80 /\ damage = 40) => enemy'.currentHealth = 40
                 /\ \E k \in DOMAIN enemy'.pending :
                       enemy'.pending[k] = [cb |-> "hurtEnd", due |-> now + 400]
       /\ \A i \in DOMAIN enemy.pending, off \in Offsets :
             (/\ EnemyFireTimer(i, off)
              /\ enemy.pending[i].cb = "hurtEnd"
              /\ enemy.currentHealth > 0) =>
                 enemy'.currentState = "idle"]_vars

\* the enemy hit for 40 at full health is IDLE again, its hurt-end callback
\* gone and its 500 ms invulnerability still running
C14_Witness ==
    /\ focus = "enemy"
    /\ enemy.maxHealth = 80
    /\ enemy.currentHealth = 40
    /\ enemy.currentState = "idle"
    /\ enemy.isInvulnerable
    /\ \A k \in DOMAIN enemy.pending : enemy.pending[k].cb # "hurtEnd"
    /\ \E k \in DOMAIN enemy.pending :
          enemy.pending[k].cb = "invulnEnd" /\ enemy.pending[k].due > now

\* C15: a non-lethal, non-blocked takeDamage puts the Player in STUNNED
\* with the invulnerability window open and the stun timer due 800 ms
\* later; a STUNNED Player rejects attack() and leaves STUNNED only when
\* that timer fires and returns the living Player to IDLE (or by dying).
C15_StunnedUntilTimer ==
    [][/\ \A damage \in DamageAmounts :
             (/\ PlayerTakeDamage(damage)
              /\ ~player.isInvulnerable
              /\ player.currentState \notin {"dead", "blocking"}
              /\ player.currentHealth > damage) =>
                 /\ player'.currentState = "stunned"
                 /\ player'.isInvulnerable
                 /\ \E k \in DOMAIN player'.pending :
                       player'.pending[k] = [cb |-> "stunEnd", due |-> now + 800]
       /\ (player.currentState = "stunned" /\ PlayerAttack) =>
             (player'.currentState = "stunned" /\ ~Emitted(player', "attack"))
       /\ (player.currentState = "stunned" /\ player'.currentState # "stunned") =>
             \/ player'.currentState = "dead"
             \/ \E i \in DOMAIN player.pending :
                   /\ PlayerFireTimer(i)
                   /\ player.pending[i].cb = "stunEnd"
                   /\ player.currentHealth > 0
                   /\ player'.currentState = "idle"]_vars

\* C16: the Player enters BLOCKING only by startBlocking() from IDLE or
\* WALKING (a no-op in every other state) and leaves BLOCKING only by
\* stopBlocking() or by dying; no timer ends the blocking.
C16_BlockingOnlyByCalls ==
    [][/\ (player.currentState # "blocking" /\ player'.currentState = "blocking") =>
             (PlayerStartBlocking /\ player.currentState \in {"idle", "walking"})
       /\ (PlayerStartBlocking /\ player.currentState \notin {"idle", "walking"}) =>
             player'.currentState = player.currentState
       /\ (player.currentState = "blocking" /\ player'.currentState # "blocking") =>
             (PlayerStopBlocking \/ player'.currentState = "dead")]_vars

\* C17: heal(amount) sets a living Player's health to
\* min(maxHealth, currentHealth + amount) and leaves a DEAD Player DEAD
\* with health 0.
C17_HealNeverResurrects ==
    [][\A amount \in HealAmounts :
          PlayerHeal(amount) =>
              IF player.currentState = "dead"
              THEN player'.currentState = "dead" /\ player'.currentHealth = 0
              ELSE player'.currentHealth = Min(player.maxHealth, player.currentHealth + amount)]_vars

\* C18: when the windup timer fires, alignment is taken from the player's
\* position at that moment: with a vertical offset above the tolerance no
\* attack intent is emitted and the state is WALKING right after the
\* callback; an intent is emitted only with the offset within the tolerance.
C18_WindupRevalidates ==
    [][\A i \in DOMAIN enemy.pending, off \in Offsets :
          (EnemyFireTimer(i, off) /\ enemy.pending[i].cb = "windup") =>
              /\ Abs(off[2]) > Enemy_verticalAttackTolerance =>
                    (~Emitted(enemy', "attack") /\ enemy'.currentState = "walking")
              /\ Emitted(enemy', "attack") =>
                    Abs(off[2]) <= Enemy_verticalAttackTolerance]_vars

\* a swing cancelled at the end of the windup of a living enemy
C18_Witness ==
    /\ focus = "enemy"
    /\ enemy.currentHealth > 0
    /\ enemy.currentState = "walking"
    /\ enemy.isAttacking
    /\ ~enemy.isWindingUp
    /\ enemy.lastAttackTime = now
    /\ enemy.emitted = <<>>

\* C19: two update() calls less than ACTION_COOLDOWN (1500 ms) apart never
\* both change the enemy's velocity or state through the AI decision loop.
C19_OneDecisionPerCooldown ==
    [][(enemy.decisionAt >= 0 /\ enemy'.decisionAt # enemy.decisionAt) =>
           enemy'.decisionAt - enemy.decisionAt >= ENEMY_ACTION_COOLDOWN]_vars

\* C20: the step in which a spawned enemy dies removes it from the live
\* list and grants its experience reward; no other step of that enemy
\* grants experience, and it dies at most once whatever timers fire later.
C20_RewardOncePerEnemy ==
    [][/\ enemy'.deaths > enemy.deaths =>
             /\ ~Spawned_inList(spawner')
             /\ player'.totalExperience =
                    player.totalExperience + Enemy_getExperienceReward(Spawner_calculateEnemyLevel)
       /\ enemy'.deaths = enemy.deaths =>
             player'.totalExperience = player.totalExperience
       /\ enemy'.deaths <= 1
       /\ player'.totalExperience =
              enemy'.deaths * Enemy_getExperienceReward(Spawner_calculateEnemyLevel)]_vars

\* the dead enemy's windup fired after its death: it has left DEAD, is off
\* the live list and the reward was granted once
C20_Witness ==
    /\ focus = "spawned"
    /\ enemy.deaths = 1
    /\ enemy.currentHealth = 0
    /\ enemy.currentState # "dead"
    /\ ~Spawned_inList(spawner)
    /\ Len(spawner.enemies) = 1
    /\ player.totalExperience = 25

\* C21: an item drop rolled on an enemy's death enters the inventory only when
\* the inventory is not full: a drop rolled while every slot is occupied
\* leaves all slots unchanged, and a drop that changes the slots puts the item
\* in the first empty slot
C21_DropOnlyWhenNotFull ==
    [][/\ Inventory_isFull(spawner.slots) => spawner'.slots = spawner.slots
       /\ spawner'.fullDrops > spawner.fullDrops => spawner'.slots = spawner.slots
       /\ spawner'.slots # spawner.slots =>
              /\ ~Inventory_isFull(spawner.slots)
              /\ spawner'.slots = Inventory_add(spawner.slots, "potion_health_small")
              /\ Len(spawner'.enemies) < Len(spawner.enemies)]_vars

\* C21 witness: an enemy died and its drop was rolled while the inventory was full
C21_Witness ==
    /\ focus = "spawner"
    /\ spawner.fullDrops > 0
    /\ Inventory_isFull(spawner.slots)

\* C22: after reset() every spawn point is untriggered and the live list is
\* empty, so each spawn point passes the spawn guard again; reset() awards no
\* experience and adds no item for the enemies it destroys
C22_ResetRearms ==
    [][spawner'.resets > spawner.resets =>
          /\ \A i \in DOMAIN spawner'.spawnPoints :
                 /\ ~spawner'.spawnPoints[i].triggered
                 /\ Spawner_canSpawn(spawner', i)
          /\ spawner'.enemies = <<>>
          /\ player'.experience = player.experience
          /\ player'.totalExperience = player.totalExperience
          /\ player'.level = player.level
          /\ spawner'.slots = spawner.slots
          /\ spawner'.fullDrops = spawner.fullDrops]_vars

\* C22 witness: a spawn point that had spawned before a reset() of a non-empty
\* list has spawned a second enemy after it
C22_Witness ==
    /\ focus = "spawner"
    /\ spawner.resets > 0
    /\ \E i \in DOMAIN spawner.spawnPoints :
           /\ spawner.totals[i] >= 2
           /\ spawner.spawns[i] = 1
           /\ spawner.spawnPoints[i].triggered

\* C23: a Projectile emits at most one hit event in its lifetime: once
\* hasHitTarget is set it stays set, a further hitTarget call emits nothing,
\* and neither preUpdate nor the failsafe acts on the projectile any more
C23_SingleHit ==
    [][/\ projectile'.hits <= 1
       /\ projectile.hasHitTarget =>
              /\ projectile'.hasHitTarget
              /\ projectile'.hits = projectile.hits
              /\ projectile'.destroys = projectile.destroys
              /\ projectile'.active = projectile.active
              /\ projectile'.x = projectile.x /\ projectile'.y = projectile.y]_vars

\* C23 witness: hitTarget was called again after the first hit, and a frame
\* has run since the hit
C23_Witness ==
    /\ focus = "projectile"
    /\ projectile.hits = 1
    /\ projectile.hitCalls >= 2
    /\ projectile.hitAt >= 0 /\ projectile.hitAt < now

\* C24: when a RangedEnemy fires at a player whose velocity is (0, 0), the aim
\* point is the player's position, and the velocity of the projectile created
\* is parallel to the vector from the enemy to the player, in the same
\* direction and of length projectileSpeed
C24_StationaryAim ==
    (/\ focus = "ranged" /\ ranged.fired
     /\ ranged.playerVelocityX = 0 /\ ranged.playerVelocityY = 0) =>
        LET dx == ranged.playerX - ranged.x
            dy == ranged.playerY - ranged.y
        IN /\ ranged.aimX = ranged.playerX
           /\ ranged.aimY = ranged.playerY
           /\ ranged.shot.exists <=> (dx # 0 \/ dy # 0)
           /\ ranged.shot.exists =>
                  /\ ranged.shot.velocityX * dy = ranged.shot.velocityY * dx
                  /\ ranged.shot.velocityX * dx + ranged.shot.velocityY * dy > 0
                  /\ ranged.shot.velocityX * ranged.shot.velocityX
                         + ranged.shot.velocityY * ranged.shot.velocityY
                     = RANGED_PROJECTILE_SPEED * RANGED_PROJECTILE_SPEED

\* C24 witness: a projectile was fired along a diagonal at a stationary player
\* whose body is present
C24_Witness ==
    /\ focus = "ranged" /\ ranged.fired /\ ranged.hasBody
    /\ ranged.playerVelocityX = 0 /\ ranged.playerVelocityY = 0
    /\ ranged.shot.exists
    /\ ranged.shot.velocityX # 0 /\ ranged.shot.velocityY # 0

\* the reference of C25 for speed: k levels in turn, +5 while below 300
RECURSIVE RefSpeed(_, _)
RefSpeed(speed, k) ==
    IF k = 0 THEN speed
    ELSE RefSpeed(IF speed < 300 THEN speed + 5 ELSE speed, k - 1)

\* C25: a gainExperience call that gains k levels adds 10 * k to maxHealth and
\* to currentHealth and 2 * k to attackDamage, and raises speed by 5 for each
\* of the k levels before which speed was below 300
C25_LevelUpBonuses ==
    [][\A amount \in XPGrants :
          GainExperience(amount) =>
              LET k == player'.level - player.level
              IN /\ k = LevelUps(player')
                 /\ player'.maxHealth = player.maxHealth + 10 * k
                 /\ player'.currentHealth = player.currentHealth + 10 * k
                 /\ player'.attackDamage = player.attackDamage + 2 * k
                 /\ player'.speed = RefSpeed(player.speed, k)]_vars

\* C25 witness: a single grant crossed two levels, the first of which raised
\* speed from 295 to the cap and the second of which left it there
C25_Witness ==
    /\ focus = "leveling"
    /\ LevelUps(player) = 2
    /\ player.level = 6
    /\ player.speed = 300
    /\ player.maxHealth = 150 /\ player.attackDamage = 30

\* buffs of a stat whose revert is pending
PendingBuffs(stat) == {i \in DOMAIN game.pending : game.pending[i].stat = stat}

\* C26: a timed buff is applied once and reverted exactly once, not before
\* durationMs have passed: at every moment attackDamage and speed are the
\* value they have without buffs plus the amount of every buff whose revert
\* is pending, so with all reverts done each stat is back at its value
\* without the potions, also when buffs overlap
C26_BuffRevertedOnce ==
    focus = "buffs" =>
        /\ player.attackDamage
               = game.baseAttackDamage + TONIC_ATTACK_AMOUNT * Cardinality(PendingBuffs("attackDamage"))
        /\ player.speed
               = game.baseSpeed + DRAUGHT_SPEED_AMOUNT * Cardinality(PendingBuffs("speed"))
        /\ game.applied = game.reverted + Len(game.pending)
        /\ \A i \in DOMAIN game.pending :
               /\ game.pending[i].due >= StartTime + 10000
               /\ game.pending[i].due + BuffFrameMs > now

\* C26 witness: two attack tonics whose buffs overlapped (both ended within
\* four frames) have been reverted and attackDamage is back at its initial value
C26_Witness ==
    /\ focus = "buffs"
    /\ game.reverted >= 2
    /\ frame <= 4
    /\ game.slots[1] = "null" /\ game.slots[3] = "null"
    /\ PendingBuffs("attackDamage") = {}
    /\ player.totalExperience = 0
    /\ player.attackDamage = 20

\* C27: inventory operations that cannot succeed change no slot and return a
\* failure value: getAt and removeAt with an out-of-range or non-integer index
\* return null, swap with such an index changes nothing, and add() on a full
\* inventory or with an id that is not a registered item returns
\* {success: false} with reason 'full' or 'invalid'
C27_FailedOperationsChangeNothing ==
    [][/\ \A h \in IndexInputs :
              (~Inventory_isValidIndex(game.slots, h)
               /\ (InventoryGetAt(h) \/ InventoryRemoveAt(h))) =>
                  game'.slots = game.slots /\ game'.result.value = "null"
       /\ \A a \in IndexInputs, b \in IndexInputs :
              ((~Inventory_isValidIndex(game.slots, a) \/ ~Inventory_isValidIndex(game.slots, b))
               /\ InventorySwap(a, b)) =>
                  game'.slots = game.slots
       /\ \A itemId \in AddInputs :
              ((Inventory_isFull(game.slots) \/ itemId \notin ItemIds)
               /\ InventoryAdd(itemId)) =>
                  /\ game'.slots = game.slots
                  /\ ~game'.result.success
                  /\ game'.result.value \in {"full", "invalid"}]_vars

\* windup timers pending for the enemy
PendingWindups(e) == {i \in DOMAIN e.pending : e.pending[i].cb = "windup"}

\* C28: a melee enemy starts a windup only when it is not ATTACKING, HURT or
\* BLOCKING and not already winding up, so at most one windup timer is pending
\* at any time, and one is pending exactly while isWindingUp is set
C28_OneWindupAtATime ==
    [][/\ Cardinality(PendingWindups(enemy')) <= 1
       /\ enemy'.isWindingUp <=> PendingWindups(enemy') # {}
       /\ Cardinality(PendingWindups(enemy')) > Cardinality(PendingWindups(enemy)) =>
              /\ enemy.currentState \notin {"attacking", "hurt", "blocking", "dead"}
              /\ ~enemy.isWindingUp
              /\ PendingWindups(enemy) = {}]_vars

\* C28 witness: the enemy was hit during its windup and, HURT with the windup
\* timer still pending, has been updated again
C28_Witness ==
    /\ focus = "enemy"
    /\ enemy.currentState = "hurt"
    /\ enemy.isWindingUp
    /\ Cardinality(PendingWindups(enemy)) = 1
    /\ calls >= 3

\* C29: every timed state ends, given that the scene clock keeps running: a
\* Player in ATTACKING or STUNNED is eventually out of that state (or its
\* scene has shut down), an Enemy in ATTACKING, HURT or BLOCKING is eventually
\* out of that state, and an Enemy that is winding up eventually is not
C29_TimedStatesEnd ==
    /\ \A st \in {"attacking", "stunned"} :
           (focus = "player" /\ player.currentState = st)
               ~> (player.currentState # st \/ ~sceneRunning)
    /\ \A st \in {"attacking", "hurt", "blocking"} :
           (focus = "enemy" /\ enemy.currentState = st) ~> (enemy.currentState # st)
    /\ (focus = "enemy" /\ enemy.isWindingUp) ~> ~enemy.isWindingUp

\* C29 witness: an enemy that was hit during its windup has had its windup,
\* hurt, attack and invulnerability timers fire after the last observed
\* frame and is idle again
C29_Witness ==
    /\ focus = "enemy"
    /\ frame >= MaxFrames
    /\ now > StartTime + MaxFrames * FrameMs
    /\ enemy.currentHealth < enemy.maxHealth /\ enemy.currentHealth > 0
    /\ enemy.lastAttackTime > StartTime
    /\ enemy.pending = <<>>
    /\ enemy.currentState = "idle" /\ ~enemy.isWindingUp

\* C30: whenever a melee enemy repositions toward the player it moves along a
\* single axis: right after an update() whose AI loop decided to reposition
\* (the enemy is walking on a decision of this frame, not winding up), at most
\* one of its two velocity components is non-zero
C30_RepositionSingleAxis ==
    (focus = "enemy" /\ enemy.currentState = "walking" /\ enemy.decisionAt = now
        /\ ~enemy.isWindingUp)
        => (enemy.velocity.x = 0 \/ enemy.velocity.y = 0)

\* C31: in the last update() of a RangedEnemy, a windup was started only if
\* the player's distance was within [minAttackDistance, rangedAttackRange]
\* and the player was vertically aligned; and when the policy decided with
\* the player closer than minAttackDistance, no windup was started and the
\* velocity set points away from the player on both axes
C31_StandOffEnvelope ==
    (focus = "rangedAI" /\ ranged.updates > 0) =>
        LET d2 == ranged.dx * ranged.dx + ranged.dy * ranged.dy
        IN /\ ranged.windup =>
                  /\ d2 >= RANGED_MIN_ATTACK_DISTANCE * RANGED_MIN_ATTACK_DISTANCE
                  /\ d2 <= RANGED_ATTACK_RANGE * RANGED_ATTACK_RANGE
                  /\ Abs(ranged.dy) <= Enemy_verticalAttackTolerance
           /\ (ranged.decided /\ d2 > 0
                  /\ d2 < RANGED_MIN_ATTACK_DISTANCE * RANGED_MIN_ATTACK_DISTANCE) =>
                  /\ ~ranged.windup
                  /\ Sign(ranged.velocity.x) = 0 - Sign(ranged.dx)
                  /\ Sign(ranged.velocity.y) = 0 - Sign(ranged.dy)
                  /\ ranged.velocity.x * ranged.dy = ranged.velocity.y * ranged.dx

\* C31 witness: after an earlier update() that started a windup at a distance
\* inside the envelope, the enemy has fired and a later update() with the
\* player closer than minAttackDistance made it retreat along a diagonal
C31_Witness ==
    /\ focus = "rangedAI" /\ ranged.decided /\ ~ranged.windup
    /\ enemy.lastAttackTime > StartTime
    /\ ranged.dx = -60 /\ ranged.dy = 80
    /\ ranged.velocity.x > 0 /\ ranged.velocity.y < 0
    /\ enemy.currentState = "walking"

\* C32: the Player's invulnerability window lasts invulnerabilityDuration: a
\* takeDamage call on a living Player made invulnerabilityDuration or more
\* after the hit that opened the last window is applied (a damage event is
\* emitted), and one made earlier is ignored; the call comes after the
\* callbacks due in its frame
C32_InvulnerabilityWindowLength ==
    [][\A damage \in DamageAmounts :
          (PlayerTakeDamage(damage) /\ player.windowAt >= 0
              /\ player.currentState # "dead" /\ DueTimers(player) = {}) =>
              IF now - player.windowAt >= Player_invulnerabilityDuration
              THEN Emitted(player', "damage")
              ELSE ~Emitted(player', "damage") /\ player'.currentHealth = player.currentHealth]_vars

\* C33: the state flags agree with the state in every reachable state: the
\* Player's isAttacking is true exactly when its state is ATTACKING and its
\* isBlocking exactly when its state is BLOCKING, and the same for the Enemy
C33_FlagsAgreeWithState ==
    /\ focus = "player" =>
          /\ player.isAttacking <=> (player.currentState = "attacking")
          /\ player.isBlocking <=> (player.currentState = "blocking")
    /\ focus = "enemy" =>
          /\ enemy.isAttacking <=> (enemy.currentState = "attacking")
          /\ enemy.isBlocking <=> (enemy.currentState = "blocking")

\* C34: an enemy that has died emits no attack intent afterwards: no handler
\* that runs after the death event emits 'attack', also when the enemy died
\* while its windup timer was pending
C34_NoAttackAfterDeath ==
    (focus = "enemy" /\ enemy.deaths > 0) => ~Emitted(enemy, "attack")

\* C35: an enemy that is HURT does not swing: a handler that runs while the
\* enemy is HURT emits no attack intent, and leaves the enemy HURT or moves
\* it to IDLE (hurt timer) or to DEAD
C35_NoSwingOutOfHurt ==
    [][(focus = "enemy" /\ enemy.currentState = "hurt") =>
          /\ ~Emitted(enemy', "attack")
          /\ enemy'.currentState \in {"hurt", "idle", "dead"}]_vars

\* C36: a swing cancelled for lost vertical alignment consumes the attack
\* cooldown: the cancelling attack() records lastAttackTime, and after it no
\* windup starts until attackCooldown has elapsed since the cancelled swing
C36_CancelledSwingConsumesCooldown ==
    [][/\ (enemy'.cancelledAt # enemy.cancelledAt) =>
              (enemy'.cancelledAt = now /\ enemy'.lastAttackTime = now
                  /\ ~Emitted(enemy', "attack"))
       /\ (enemy.cancelledAt >= 0 /\ enemy'.isWindingUp /\ ~enemy.isWindingUp) =>
              now - enemy.cancelledAt >= ENEMY_ATTACK_COOLDOWN]_vars

\* C36 witness: after a cancelled swing the enemy has started a new windup,
\* once the cooldown had elapsed, with no swing in between
C36_Witness ==
    /\ focus = "enemy"
    /\ enemy.cancelledAt >= 0
    /\ enemy.lastAttackTime = enemy.cancelledAt
    /\ enemy.isWindingUp
    /\ enemy.currentHealth > 0
    /\ now >= enemy.cancelledAt + ENEMY_ATTACK_COOLDOWN

\* C37: the bonuses.speed of every levelUp event equals the speed that
\* level-up added to the Player: 5 when the speed was increased and 0 when
\* the cap suppressed the increase
C37_ReportedSpeedBonus ==
    focus = "leveling" =>
        \A i \in DOMAIN player.levelBonuses :
            player.levelBonuses[i].speed = player.levelBonuses[i].added

\* untriggered points in trigger distance that the loop reaches before point i
WaitingBefore(sp, i) ==
    Cardinality({j \in 1..(i - 1) : Spawner_inTriggerDistance(sp, j)})

\* C38 as stated: in every update(), an untriggered point in trigger distance
\* stays untriggered and spawns nothing when the live-enemy count of the tick
\* equals maxEnemies, and a point passed over in this way before spawns its
\* enemy on the first tick whose count is below maxEnemies with the player
\* in its trigger distance
C38_DeferredSpawnOnFreeTick ==
    [][SpawnerUpdate =>
          \A i \in DOMAIN spawner.spawnPoints :
              Spawner_inTriggerDistance(spawner, i) =>
                  /\ Len(spawner.enemies) = spawner.maxEnemies =>
                        /\ ~spawner'.spawnPoints[i].triggered
                        /\ spawner'.spawns[i] = spawner.spawns[i]
                  /\ (spawner.deferred[i] /\ Len(spawner.enemies) < spawner.maxEnemies) =>
                        /\ spawner'.spawnPoints[i].triggered
                        /\ spawner'.spawns[i] = spawner.spawns[i] + 1]_vars

\* C38 amended: the same with the count taken when the loop reaches the
\* point, that is after the untriggered points in trigger distance that come
\* before it in the list have taken the free places
C38_DeferredSpawn ==
    [][SpawnerUpdate =>
          \A i \in DOMAIN spawner.spawnPoints :
              Spawner_inTriggerDistance(spawner, i) =>
                  IF Len(spawner.enemies) + WaitingBefore(spawner, i) < spawner.maxEnemies
                  THEN /\ spawner'.spawnPoints[i].triggered
                       /\ spawner'.spawns[i] = spawner.spawns[i] + 1
                  ELSE /\ ~spawner'.spawnPoints[i].triggered
                       /\ spawner'.spawns[i] = spawner.spawns[i]]_vars

\* C38 witness: a point that was passed over for a full list has spawned its
\* enemy on a later tick, and another point passed over is still waiting in
\* trigger distance with the list full again
C38_Witness ==
    /\ focus = "spawner"
    /\ Len(spawner.enemies) = spawner.maxEnemies
    /\ \E i \in DOMAIN spawner.spawnPoints :
          /\ spawner.deferred[i] /\ spawner.spawnPoints[i].triggered
          /\ \E k \in DOMAIN spawner.enemies : spawner.enemies[k].point = i
    /\ \E j \in DOMAIN spawner.spawnPoints :
          spawner.deferred[j] /\ Spawner_inTriggerDistance(spawner, j)

\* C39: whenever a melee enemy emits an attack intent while the player is
\* horizontally within attackRange and vertically within the tolerance of
\* the enemy, on the side the enemy faces, the hit test of the resolver
\* succeeds: the attack point is at most the intent's range from the player
C39_AlignedStrikeHits ==
    [][\A i \in DOMAIN enemy.pending, off \in StrikeOffsets :
          (/\ StrikeFireTimer(i, off)
           /\ Emitted(enemy', "attack")
           /\ Abs(off[1]) <= Enemy_attackRange
           /\ Abs(off[2]) <= Enemy_verticalAttackTolerance
           /\ enemy'.flipX = (off[1] < 0)) =>
              Game_handleEnemyAttack(Enemy_attackData(enemy'), off[1], off[2])]_vars

\* C40: a timed speed buff does not change what the Player gains from
\* leveling: whenever no speed buff is pending, the Player's speed is the
\* value its level gives without potions, 5 more for each level-up made
\* below the cap
C40_BuffLeavesLevelingGains ==
    (focus = "buffs" /\ PendingBuffs("speed") = {}) =>
        player.speed = RefSpeed(Player_new.speed, player.level - 1)

====
